---- MODULE Spec2Model ----
(***************************************************************************)
(* Model of the configurable scoring and decision rule engine of           *)
(* app/core/scoring.py (load_config, score_indicator, aggregate_scores,    *)
(* apply_decision_rules, score_stock) and of app/core/decision.py.         *)
(*                                                                         *)
(* Numbers are exact rationals <<n, d>> (d > 0, lowest terms): the model   *)
(* abstracts IEEE rounding and keeps every division, tolerance and         *)
(* comparison of the code.  A Python exception is the outcome "raised".    *)
(***************************************************************************)
EXTENDS Integers, Sequences, FiniteSets, TLC

VARIABLES
    doc,      \* the configuration document read by load_config
    lc,       \* position of load_config: "start", "returned", "raised"
    cfg,      \* the configuration load_config returned
    napps,    \* number of times load_config has run on it
    si_ind,     \* score_indicator: the indicator spec
    si_inputs,  \* score_indicator: the merged inputs
    si_peers,   \* score_indicator: the peer samples
    ipc,      \* position of score_indicator: "call", "returned", "raised"
    ires,       \* outcome of score_indicator
    s_config,   \* score_stock / apply_decision_rules: the caller's config
    s_inputs,   \* score_stock: the caller's inputs
    s_overrides,\* score_stock: the caller's overrides
    s_peers,    \* score_stock: the caller's peer samples
    merged_inputs, \* merged_inputs: the inputs with the overrides applied
    s_breakdown,  \* the results scored so far
    ran,        \* for each result, whether a scoring function was run
    agg,        \* category_scores and total_score
    dec,        \* rating, sizing, red_flags, triggered of the decision
    report,     \* the dict score_stock returned
    pc,         \* position inside score_stock / apply_decision_rules
    mode,       \* "stock": score_stock was called; "decision":
                \* apply_decision_rules was called directly
    ncalls,     \* number of calls of score_stock with these arguments
    prev_report,\* the dict the previous call returned
    li_call,    \* _linear_interpolate: value and breakpoints
    li_result,  \* _linear_interpolate: the value returned
    et_call,    \* _evaluate_trigger: trigger, breakdown, category_scores,
                \* inputs and red_flags
    et_result,  \* _evaluate_trigger: the value returned and the number of
                \* recursive calls made
    fpc         \* position of the helper called on its own

loadVars == <<doc, lc, cfg, napps>>
indVars == <<si_ind, si_inputs, si_peers, ipc, ires>>
callVars == <<s_config, s_inputs, s_overrides, s_peers, mode>>
histVars == <<ncalls, prev_report>>
fnVars == <<li_call, li_result, et_call, et_result, fpc>>
stockVars == <<s_config, s_inputs, s_overrides, s_peers, merged_inputs, s_breakdown, ran,
               agg, dec, report, pc, mode, ncalls, prev_report>>
vars == <<doc, lc, cfg, napps, si_ind, si_inputs, si_peers, ipc, ires,
          s_config, s_inputs, s_overrides, s_peers, merged_inputs, s_breakdown, ran,
          agg, dec, report, pc, mode, ncalls, prev_report,
          li_call, li_result, et_call, et_result, fpc>>

-----------------------------------------------------------------------------
(* Exact rational arithmetic *)

Abs(n) == IF n < 0 THEN -n ELSE n

RECURSIVE GCD(_, _)
GCD(a, b) == IF b = 0 THEN a ELSE GCD(b, a % b)

Norm(n, d) ==
    LET s == IF d < 0 THEN -1 ELSE 1
        g == GCD(Abs(n), Abs(d))
    IN  <<(s * n) \div g, (s * d) \div g>>

R(n) == <<n, 1>>
LCM(a, b) == (a \div GCD(a, b)) * b
RAdd(p, q) ==
    LET l == LCM(p[2], q[2])
    IN  Norm(p[1] * (l \div p[2]) + q[1] * (l \div q[2]), l)
RNeg(p) == <<-p[1], p[2]>>
RSub(p, q) == RAdd(p, RNeg(q))
RMul(p, q) ==
    LET a == Norm(p[1], q[2])
        b == Norm(q[1], p[2])
    IN  <<a[1] * b[1], a[2] * b[2]>>
\* q is not zero
RDiv(p, q) == RMul(p, Norm(q[2], q[1]))
RLe(p, q) ==
    LET l == LCM(p[2], q[2])
    IN  p[1] * (l \div p[2]) <= q[1] * (l \div q[2])
RLt(p, q) == ~RLe(q, p)
RAbs(p) == <<Abs(p[1]), p[2]>>
RIsZero(p) == p[1] = 0
RMax(p, q) == IF RLt(p, q) THEN q ELSE p
RMin(p, q) == IF RLt(q, p) THEN q ELSE p

RECURSIVE RSumSeq(_)
RSumSeq(s) == IF s = <<>> THEN R(0) ELSE RAdd(Head(s), RSumSeq(Tail(s)))

RECURSIVE RSumFun(_, _)
RSumFun(f, S) ==
    IF S = {} THEN R(0)
    ELSE LET k == CHOOSE x \in S : TRUE
         IN  RAdd(f[k], RSumFun(f, S \ {k}))

-----------------------------------------------------------------------------
(* load_config *)

WeightSumTol == <<1, 100>>
CategoryTol == <<1, 2>>
Hundred == R(100)

\* weights of the document, {} when the key is missing
DocWeights(d) == IF d.has_weights THEN d.weights ELSE <<>>
\* indicators of the document, [] when the key is missing
DocIndicators(d) == IF d.has_indicators THEN d.indicators ELSE <<>>

\* sum(weight for _, weight in indicators_weights) of one category
CategorySum(inds, c) ==
    RSumSeq([i \in 1..Len(inds) |->
                IF inds[i].category = c THEN inds[i].weight ELSE R(0)])

IndicatorCategories(inds) == {inds[i].category : i \in 1..Len(inds)}

WeightOf(w, c) == IF c \in DOMAIN w THEN w[c] ELSE R(0)

\* variant: the rescaled weight is not multiplied by 100
NormalizeWeightsNoHundred(w) ==
    LET total == RSumFun(w, DOMAIN w)
    IN  IF RLt(WeightSumTol, RAbs(RSub(total, Hundred)))
        THEN IF DOMAIN w # {} /\ RIsZero(total)
             THEN [raised |-> TRUE, weights |-> w, normalized |-> TRUE]
             ELSE [raised |-> FALSE,
                   weights |-> [c \in DOMAIN w |-> RDiv(w[c], total)],
                   normalized |-> TRUE]
        ELSE [raised |-> FALSE, weights |-> w, normalized |-> FALSE]

\* step 1: category weights are rescaled to sum to 100
NormalizeWeights(w) ==
    LET total == RSumFun(w, DOMAIN w)
    IN  IF RLt(WeightSumTol, RAbs(RSub(total, Hundred)))
        THEN IF DOMAIN w # {} /\ RIsZero(total)
             THEN [raised |-> TRUE, weights |-> w, normalized |-> TRUE]
             ELSE [raised |-> FALSE,
                   weights |-> [c \in DOMAIN w |-> RMul(RDiv(w[c], total), Hundred)],
                   normalized |-> TRUE]
        ELSE [raised |-> FALSE, weights |-> w, normalized |-> FALSE]

NeedsRescale(inds, w, c) ==
    RLt(CategoryTol, RAbs(RSub(CategorySum(inds, c), WeightOf(w, c))))

\* variant: the operands of the rescale are swapped,
\* (weight / expected_weight) * total_cat_weight
NormalizeIndicatorsSwapped(inds, w) ==
    LET bad == {c \in IndicatorCategories(inds) :
                   NeedsRescale(inds, w, c) /\ RIsZero(WeightOf(w, c))}
    IN  IF bad # {}
        THEN [raised |-> TRUE, indicators |-> inds]
        ELSE [raised |-> FALSE,
              indicators |->
                [i \in 1..Len(inds) |->
                    IF NeedsRescale(inds, w, inds[i].category)
                    THEN [inds[i] EXCEPT !.weight =
                            RMul(RDiv(inds[i].weight, WeightOf(w, inds[i].category)),
                                 CategorySum(inds, inds[i].category))]
                    ELSE inds[i]]]

\* step 2: indicator weights of every category are rescaled to the category weight
NormalizeIndicators(inds, w) ==
    LET bad == {c \in IndicatorCategories(inds) :
                   NeedsRescale(inds, w, c) /\ RIsZero(CategorySum(inds, c))}
    IN  IF bad # {}
        THEN [raised |-> TRUE, indicators |-> inds]
        ELSE [raised |-> FALSE,
              indicators |->
                [i \in 1..Len(inds) |->
                    IF NeedsRescale(inds, w, inds[i].category)
                    THEN [inds[i] EXCEPT !.weight =
                            RMul(RDiv(inds[i].weight, CategorySum(inds, inds[i].category)),
                                 WeightOf(w, inds[i].category))]
                    ELSE inds[i]]]

LoadConfig(d) ==
    LET nw == NormalizeWeights(DocWeights(d))
        ni == NormalizeIndicators(DocIndicators(d), nw.weights)
    IN  IF nw.raised \/ ni.raised
        THEN [raised |-> TRUE, config |-> d]
        ELSE [raised |-> FALSE,
              config |-> [normalized |-> nw.normalized]
                         @@ [d EXCEPT !.weights = nw.weights,
                                      !.indicators = ni.indicators]]

-----------------------------------------------------------------------------
(* Python values: None, float NaN, a number, a string *)

None == [t |-> "none", n |-> R(0), s |-> ""]
NaN == [t |-> "nan", n |-> R(0), s |-> ""]
Num(r) == [t |-> "num", n |-> r, s |-> ""]
Str(x) == [t |-> "str", n |-> R(0), s |-> x]

\* an ordering comparison with a number raises TypeError for None and str
Unorderable(v) == v.t \in {"none", "str"}

\* inputs.get(field): None when the key is absent
Get(inputs, f) == IF f \in DOMAIN inputs THEN inputs[f] ELSE None

\* str(value); integral numbers are Python ints
PyStr(v) ==
    CASE v.t = "str" -> v.s
      [] v.t = "num" -> IF v.n[2] = 1 THEN ToString(v.n[1])
                        ELSE ToString(v.n[1]) \o "/" \o ToString(v.n[2])
      [] v.t = "nan" -> "nan"
      [] OTHER -> "None"

Ok(r) == [raised |-> FALSE, v |-> r]
Raise == [raised |-> TRUE, v |-> R(0)]

-----------------------------------------------------------------------------
(* _linear_interpolate *)

\* insert p behind every point whose x is not larger (sorted() is stable)
RECURSIVE InsertPoint(_, _)
InsertPoint(p, s) ==
    IF s = <<>> THEN <<p>>
    ELSE IF RLt(p[1], Head(s)[1]) THEN <<p>> \o s
    ELSE <<Head(s)>> \o InsertPoint(p, Tail(s))

\* variant: the breakpoints are used in the order in which they are listed
SortPointsListed(s) == s

\* sorted(breakpoints, key=lambda x: x[0])
RECURSIVE SortPoints(_)
SortPoints(s) ==
    IF s = <<>> THEN <<>>
    ELSE InsertPoint(s[Len(s)], SortPoints(SubSeq(s, 1, Len(s) - 1)))

LinearInterpolate(value, breakpoints) ==
    IF breakpoints = <<>> THEN Ok(R(0))
    ELSE IF Unorderable(value) THEN Raise
    ELSE IF value.t = "nan" THEN Ok(R(0))
    ELSE LET sp == SortPoints(breakpoints)
             n == Len(sp)
             x == value.n
         IN  IF RLe(x, sp[1][1]) THEN Ok(sp[1][2])
             ELSE IF RLe(sp[n][1], x) THEN Ok(sp[n][2])
             ELSE LET i == CHOOSE j \in 1..(n - 1) :
                              /\ RLe(sp[j][1], x) /\ RLe(x, sp[j + 1][1])
                              /\ \A k \in 1..(j - 1) :
                                    ~(RLe(sp[k][1], x) /\ RLe(x, sp[k + 1][1]))
                  IN  IF sp[i + 1][1] = sp[i][1] THEN Ok(sp[i][2])
                      ELSE Ok(RAdd(sp[i][2],
                                   RMul(RDiv(RSub(x, sp[i][1]),
                                             RSub(sp[i + 1][1], sp[i][1])),
                                        RSub(sp[i + 1][2], sp[i][2]))))

-----------------------------------------------------------------------------
(* _percentile_rank, _safe_divide and the peer median *)

RECURSIVE InsertNum(_, _)
InsertNum(r, s) ==
    IF s = <<>> THEN <<r>>
    ELSE IF RLt(r, Head(s)) THEN <<r>> \o s
    ELSE <<Head(s)>> \o InsertNum(r, Tail(s))

RECURSIVE SortNums(_)
SortNums(s) ==
    IF s = <<>> THEN <<>>
    ELSE InsertNum(s[Len(s)], SortNums(SubSeq(s, 1, Len(s) - 1)))

RECURSIVE FilterValid(_)
FilterValid(sample) ==
    IF sample = <<>> THEN <<>>
    ELSE IF Head(sample).t \in {"none", "nan"} THEN FilterValid(Tail(sample))
    ELSE <<Head(sample).n>> \o FilterValid(Tail(sample))

\* list.index(value): 0-based position of the first occurrence
IndexOf(s, r) == (CHOOSE i \in 1..Len(s) : s[i] = r /\ \A k \in 1..(i - 1) : s[k] # r) - 1

PercentileRank(value, sample) ==
    IF sample = <<>> THEN Ok(R(50))
    ELSE LET valid == FilterValid(sample)
         IN  IF valid = <<>> THEN Ok(R(50))
             ELSE IF value.t # "num" THEN Raise
             ELSE LET sorted == SortNums(Append(valid, value.n))
                      rank == IndexOf(sorted, value.n)
                  IN  Ok(RMul(RDiv(R(rank), R(Len(sorted) - 1)), Hundred))

\* sorted(sample)[len(sample) // 2] for samples of None and numbers; raises for an empty list (IndexError) and
\* for a list of two or more elements that holds None (TypeError)
SortedMiddle(sample) ==
    IF sample = <<>> THEN [raised |-> TRUE, v |-> None]
    ELSE IF Len(sample) = 1 THEN [raised |-> FALSE, v |-> sample[1]]
    ELSE IF \E i \in 1..Len(sample) : sample[i].t = "none"
         THEN [raised |-> TRUE, v |-> None]
         ELSE [raised |-> FALSE,
               v |-> Num(SortNums(FilterValid(sample))[(Len(sample) \div 2) + 1])]

\* _safe_divide(numerator, denominator, default) on Python values
SafeDivide(num, den, default) ==
    IF den.t = "num" /\ RIsZero(den.n) THEN Ok(default)
    ELSE IF den.t \in {"none", "str"} THEN Raise
    ELSE IF den.t = "nan" THEN Ok(default)
    ELSE IF num.t # "num" THEN Raise
    ELSE Ok(RDiv(num.n, den.n))

-----------------------------------------------------------------------------
(* score_indicator *)

DefaultScore == R(60)

\* ind.get('fetch', {}).get('field_hint', [indicator_id])
FieldHints(ind) == IF ind.has_fetch THEN ind.hints ELSE <<ind.id>>

\* scoring_config.get('peer', indicator_id); "" stands for a missing key
PeerKey(ind) == IF ind.scoring.peer = "" THEN ind.id ELSE ind.scoring.peer

\* the value of the first hint that is a key of the inputs, else None
RECURSIVE RawValue(_, _)
RawValue(hints, inputs) ==
    IF hints = <<>> THEN None
    ELSE IF Head(hints) \in DOMAIN inputs THEN inputs[Head(hints)]
    ELSE RawValue(Tail(hints), inputs)

IsMissing(v) == v.t \in {"none", "nan"}

Scored(r, w) ==
    [raised |-> FALSE, score |-> r, warnings |-> w, has_pm |-> FALSE, pm |-> None]
ScoredPM(r, m) ==
    [raised |-> FALSE, score |-> r, warnings |-> <<>>, has_pm |-> TRUE, pm |-> m]
Failed ==
    [raised |-> TRUE, score |-> R(0), warnings |-> <<>>, has_pm |-> FALSE, pm |-> None]

Lift(o) == IF o.raised THEN Failed ELSE Scored(o.v, <<>>)

ScorePeerPercentile(ind, raw, peers) ==
    LET k == PeerKey(ind)
    IN  IF k \in DOMAIN peers
        THEN LET pr == PercentileRank(raw, peers[k])
                 md == IF peers[k] = <<>> THEN [raised |-> FALSE, v |-> None]
                       ELSE SortedMiddle(peers[k])
             IN  IF pr.raised \/ md.raised THEN Failed ELSE ScoredPM(pr.v, md.v)
        ELSE Scored(DefaultScore, <<"peer data not available">>)

ScoreRelativeToPeer(ind, raw, peers) ==
    LET rel == ind.scoring.relation
    IN  IF rel.median
        THEN IF rel.key \in DOMAIN peers
             THEN LET md == SortedMiddle(peers[rel.key])
                      ratio == SafeDivide(raw, md.v, R(1))
                      sc == LinearInterpolate(Num(ratio.v), ind.scoring.mapping)
                  IN  IF md.raised \/ ratio.raised \/ sc.raised THEN Failed
                      ELSE ScoredPM(sc.v, md.v)
             ELSE Scored(DefaultScore, <<"peer median not available">>)
        ELSE Scored(DefaultScore, <<"unsupported relation">>)

\* lo <= v <= hi on one axis of a grid cell
AxisRaises(range, v) == Len(range) = 2 /\ Unorderable(v)
AxisHit(range, v) ==
    Len(range) = 2 /\ v.t = "num" /\ RLe(range[1], v.n) /\ RLe(v.n, range[2])

CellRaises(cell, xv, yv) ==
    \/ AxisRaises(cell.x, xv)
    \/ AxisHit(cell.x, xv) /\ AxisRaises(cell.y, yv)
CellHit(cell, xv, yv) == AxisHit(cell.x, xv) /\ AxisHit(cell.y, yv)

RECURSIVE GridMax(_, _, _, _)
GridMax(grid, xv, yv, acc) ==
    IF grid = <<>> THEN acc
    ELSE GridMax(Tail(grid), xv, yv,
                 IF CellHit(Head(grid), xv, yv) THEN RMax(acc, Head(grid).score)
                 ELSE acc)

ScoreTwoDim(ind, inputs) ==
    LET sc == ind.scoring
        xv == Get(inputs, sc.x)
        yv == Get(inputs, sc.y)
    IN  IF xv.t = "none" \/ yv.t = "none"
        THEN Scored(sc.default, <<"missing x or y">>)
        ELSE IF \E i \in 1..Len(sc.grid) : CellRaises(sc.grid[i], xv, yv)
             THEN Failed
             ELSE Scored(GridMax(sc.grid, xv, yv, sc.default), <<>>)

ScoreCategorical(ind, raw) ==
    LET key == PyStr(raw)
    IN  Scored(IF key \in DOMAIN ind.scoring.map THEN ind.scoring.map[key] ELSE R(0),
               <<>>)

RECURSIVE SubScores(_, _)
SubScores(subs, inputs) ==
    IF subs = <<>> THEN [raised |-> FALSE, scores |-> <<>>, warnings |-> <<>>]
    ELSE LET rest == SubScores(Tail(subs), inputs)
             sub == Head(subs)
         IN  IF sub.k \in DOMAIN inputs
             THEN LET o == LinearInterpolate(inputs[sub.k], sub.breakpoints)
                  IN  [raised |-> o.raised \/ rest.raised,
                       scores |-> <<o.v>> \o rest.scores,
                       warnings |-> rest.warnings]
             ELSE [raised |-> rest.raised,
                   scores |-> <<R(0)>> \o rest.scores,
                   warnings |-> <<"missing sub-indicator">> \o rest.warnings]

ScoreCompositeAvg(ind, inputs) ==
    LET ss == SubScores(ind.scoring.sub, inputs)
    IN  IF ss.raised THEN Failed
        ELSE Scored(IF ss.scores = <<>> THEN R(0)
                    ELSE RDiv(RSumSeq(ss.scores), R(Len(ss.scores))),
                    ss.warnings)

ScoreRelativeIndex(ind, inputs) ==
    IF "relative_return_pct" \in DOMAIN inputs
    THEN Lift(LinearInterpolate(inputs["relative_return_pct"], ind.scoring.breakpoints))
    ELSE Scored(DefaultScore, <<>>)

\* max(0, 100 - |x - center| * 50) and max(0, 100 - y * 0.1); max(0, nan) is 0
ScoreTwoDimInvert(ind, inputs) ==
    LET sc == ind.scoring
        xv == Get(inputs, sc.x)
        yv == Get(inputs, sc.y)
        center == RDiv(RAdd(sc.beta[1], sc.beta[2]), R(2))
        xs == IF xv.t = "nan" THEN R(0)
              ELSE RMax(R(0), RSub(Hundred, RMul(RAbs(RSub(xv.n, center)), R(50))))
        ys == IF yv.t = "nan" THEN R(0)
              ELSE RMax(R(0), RSub(Hundred, RMul(yv.n, <<1, 10>>)))
    IN  IF xv.t = "none" \/ yv.t = "none"
        THEN Scored(DefaultScore, <<"missing x or y">>)
        ELSE IF xv.t = "str" \/ yv.t = "str" THEN Failed
             ELSE Scored(RDiv(RAdd(xs, ys), R(2)), <<>>)

\* the if/elif chain over scoring_type
Dispatch(ind, raw, inputs, peers) ==
    LET type == ind.scoring.type
    IN  CASE type \in {"linear_thresholds", "count_thresholds"} ->
               Lift(LinearInterpolate(raw, ind.scoring.breakpoints))
          [] type = "peer_percentile" -> ScorePeerPercentile(ind, raw, peers)
          [] type = "relative_to_peer" -> ScoreRelativeToPeer(ind, raw, peers)
          [] type = "two_dim" -> ScoreTwoDim(ind, inputs)
          [] type \in {"policy_phase", "stage", "categorical"} ->
               ScoreCategorical(ind, raw)
          [] type = "composite_avg" -> ScoreCompositeAvg(ind, inputs)
          [] type = "relative_index" -> ScoreRelativeIndex(ind, inputs)
          [] type = "two_dim_invert" -> ScoreTwoDimInvert(ind, inputs)
          [] OTHER -> Scored(DefaultScore, <<"unknown scoring type">>)

\* variant: the final max(0, min(100, score)) is left out
ClampNone(r) == r

\* max(0, min(100, score))
Clamp(r) == RMax(R(0), RMin(Hundred, r))

\* variant: the direction inversion is applied to a missing value as well
MissingScoreInverted(ind) ==
    IF ind.direction = "lower_is_better" THEN Hundred ELSE R(0)

\* the score returned for a missing value
MissingScore(ind) == R(0)

\* variant: the inversion negates the score
DirectedNegated(ind, r) ==
    IF ind.direction = "lower_is_better" THEN RNeg(r) ELSE r

\* if direction == "lower_is_better": score = 100 - score
Directed(ind, r) ==
    IF ind.direction = "lower_is_better" THEN RSub(Hundred, r) ELSE r

ResultOf(ind, raw, score, warnings, has_pm, pm) ==
    [id |-> ind.id, raw |-> raw, score |-> score, weight |-> ind.weight,
     category |-> ind.category, warnings |-> warnings,
     has_pm |-> has_pm, pm |-> pm]

NoResult ==
    [id |-> "", raw |-> None, score |-> R(0), weight |-> R(0), category |-> "",
     warnings |-> <<>>, has_pm |-> FALSE, pm |-> None]

\* the direction, the clamp and the returned dict, for the outcome d of the
\* scoring function
Finish(ind, raw, d) ==
    IF d.raised
    THEN [raised |-> TRUE, dispatched |-> TRUE, result |-> NoResult]
    ELSE [raised |-> FALSE, dispatched |-> TRUE,
          result |-> ResultOf(ind, raw, Clamp(Directed(ind, d.score)),
                              d.warnings, d.has_pm, d.pm)]

\* the early return for a missing value, else the scoring function;
\* dispatched is TRUE when a scoring function was run
ScoreRaw(ind, raw, inputs, peers) ==
    IF IsMissing(raw)
    THEN [raised |-> FALSE, dispatched |-> FALSE,
          result |-> ResultOf(ind, None, MissingScore(ind),
                              <<"missing or invalid value">>, FALSE, None)]
    ELSE Finish(ind, raw, Dispatch(ind, raw, inputs, peers))

ScoreIndicator(ind, inputs, peers) ==
    ScoreRaw(ind, RawValue(FieldHints(ind), inputs), inputs, peers)

\* the caller's sample list after _percentile_rank: valid_samples is a new
\* list, the value is appended to it and it is sorted, the sample is not
\* written
SampleAfterRank(sample, value) == sample

\* the caller's peers after score_indicator
PeersAfterScore(ind, inputs, peers) ==
    IF /\ ind.scoring.type = "peer_percentile"
       /\ ~IsMissing(RawValue(FieldHints(ind), inputs))
       /\ PeerKey(ind) \in DOMAIN peers
    THEN [peers EXCEPT ![PeerKey(ind)] =
             SampleAfterRank(peers[PeerKey(ind)],
                             RawValue(FieldHints(ind), inputs))]
    ELSE peers

-----------------------------------------------------------------------------
(* aggregate_scores *)

\* the categories of the breakdown, each once, in order of first appearance
RECURSIVE CategoryOrder(_, _)
CategoryOrder(breakdown, seen) ==
    IF breakdown = <<>> THEN seen
    ELSE CategoryOrder(Tail(breakdown),
                       IF \E i \in 1..Len(seen) : seen[i] = Head(breakdown).category
                       THEN seen
                       ELSE Append(seen, Head(breakdown).category))

\* category_indicators[category]
Members(breakdown, c) == SelectSeq(breakdown, LAMBDA item : item.category = c)

RECURSIVE SumWeights(_)
SumWeights(items) ==
    IF items = <<>> THEN R(0)
    ELSE RAdd(Head(items).weight, SumWeights(Tail(items)))

RECURSIVE SumWeightedScores(_)
SumWeightedScores(items) ==
    IF items = <<>> THEN R(0)
    ELSE RAdd(RMul(Head(items).score, Head(items).weight),
              SumWeightedScores(Tail(items)))

\* variant: the plain mean of the members' scores
CategoryScoreUnweighted(items) ==
    IF RIsZero(SumWeights(items)) THEN R(0)
    ELSE RDiv(RSumSeq([i \in 1..Len(items) |-> items[i].score]), R(Len(items)))

CategoryScore(items) ==
    IF RIsZero(SumWeights(items)) THEN R(0)
    ELSE RDiv(SumWeightedScores(items), SumWeights(items))

\* variant: the category weight is not divided by 100
RECURSIVE TotalScoreUnscaled(_, _, _)
TotalScoreUnscaled(order, scores, weights) ==
    IF order = <<>> THEN R(0)
    ELSE RAdd(RMul(scores[Head(order)], WeightOf(weights, Head(order))),
              TotalScoreUnscaled(Tail(order), scores, weights))

\* total_score += score * (category_weight / 100)
RECURSIVE TotalScore(_, _, _)
TotalScore(order, scores, weights) ==
    IF order = <<>> THEN R(0)
    ELSE RAdd(RMul(scores[Head(order)], RDiv(WeightOf(weights, Head(order)), Hundred)),
              TotalScore(Tail(order), scores, weights))

AggregateScores(config, breakdown) ==
    LET order == CategoryOrder(breakdown, <<>>)
        cats == {order[i] : i \in 1..Len(order)}
        scores == [c \in cats |-> CategoryScore(Members(breakdown, c))]
    IN  [category_scores |-> scores,
         total_score |-> TotalScore(order, scores, DocWeights(config))]

-----------------------------------------------------------------------------
(* apply_decision_rules: rating ladder and red flags; decision.py *)

RatingRule(m, r, z) == [min_score |-> m, rating |-> r, sizing |-> z]

\* variant: the first rule whose threshold is met wins
RECURSIVE LadderFirstMatch(_, _, _)
LadderFirstMatch(rules, total, cur) ==
    IF rules = <<>> THEN cur
    ELSE IF RLe(Head(rules).min_score, total)
         THEN [rating |-> Head(rules).rating, sizing |-> Head(rules).sizing]
         ELSE LadderFirstMatch(Tail(rules), total, cur)

\* for rule in score_to_rating: if total >= min_score: overwrite
RECURSIVE Ladder(_, _, _)
Ladder(rules, total, cur) ==
    IF rules = <<>> THEN cur
    ELSE Ladder(Tail(rules), total,
                IF RLe(Head(rules).min_score, total)
                THEN [rating |-> Head(rules).rating, sizing |-> Head(rules).sizing]
                ELSE cur)

LadderDefault == [rating |-> "REDUCE/WAIT", sizing |-> "underweight"]

\* decision.py: evaluate_rating_thresholds
RECURSIVE ThresholdLoop(_, _, _, _)
ThresholdLoop(thresholds, total_score, rating, sizing) ==
    IF thresholds = <<>> THEN [rating |-> rating, sizing |-> sizing]
    ELSE LET t == Head(thresholds)
             hit == RLe(t.min_score, total_score)
         IN  ThresholdLoop(Tail(thresholds), total_score,
                           IF hit THEN t.rating ELSE rating,
                           IF hit THEN t.sizing ELSE sizing)

EvaluateRatingThresholds(total_score, thresholds) ==
    ThresholdLoop(thresholds, total_score, "REDUCE/WAIT", "underweight")

\* variant: the HOLD branch of the downgrade chain is missing
DowngradeNoHold(rating) ==
    CASE rating = "BUY" -> "ACCUMULATE"
      [] rating = "ACCUMULATE" -> "HOLD"
      [] OTHER -> rating

\* the if/elif chain under DOWNGRADE_ONE_LEVEL
Downgrade(rating) ==
    CASE rating = "BUY" -> "ACCUMULATE"
      [] rating = "ACCUMULATE" -> "HOLD"
      [] rating = "HOLD" -> "REDUCE/WAIT"
      [] OTHER -> rating

\* decision.py: apply_rating_downgrade
rating_hierarchy == <<"BUY", "ACCUMULATE", "HOLD", "REDUCE/WAIT">>

ApplyRatingDowngrade(current_rating, downgrade_levels) ==
    IF \E i \in 1..Len(rating_hierarchy) : rating_hierarchy[i] = current_rating
    THEN LET current_index ==
                 (CHOOSE i \in 1..Len(rating_hierarchy) :
                      rating_hierarchy[i] = current_rating) - 1
             new_index ==
                 IF current_index + downgrade_levels < Len(rating_hierarchy) - 1
                 THEN current_index + downgrade_levels
                 ELSE Len(rating_hierarchy) - 1
         IN  rating_hierarchy[new_index + 1]
    ELSE "REDUCE/WAIT"

RedFlagRule(i, c, a) == [id |-> i, cond |-> c, action |-> a]

\* the first breakdown item whose id is the rule's id
FindIndicator(breakdown, id) ==
    IF \E i \in 1..Len(breakdown) : breakdown[i].id = id
    THEN [found |-> TRUE,
          item |-> breakdown[CHOOSE i \in 1..Len(breakdown) :
                                /\ breakdown[i].id = id
                                /\ \A k \in 1..(i - 1) : breakdown[k].id # id]]
    ELSE [found |-> FALSE, item |-> NoResult]

\* v is not None and v < bound; raises TypeError for a string
BelowRaises(v) == v.t = "str"
Below(v, bound) == v.t = "num" /\ RLt(v.n, bound)

\* variant: the sizing of the ladder rule is dropped
DecisionStartDefaultSizing(ladder) ==
    [rating |-> ladder.rating, sizing |-> "underweight", red_flags |-> <<>>,
     triggered |-> <<>>, raised |-> FALSE, ladder |-> ladder, idx |-> 0,
     downgrades |-> 0, reviews |-> 0, applied |-> "none"]

\* state of the decision: rating, sizing, red flags, triggered; idx is the
\* number of red-flag rules processed; ladder, downgrades, reviews and
\* applied record what the call has done so far
DecisionStart(ladder) ==
    [rating |-> ladder.rating, sizing |-> ladder.sizing, red_flags |-> <<>>,
     triggered |-> <<>>, raised |-> FALSE, ladder |-> ladder, idx |-> 0,
     downgrades |-> 0, reviews |-> 0, applied |-> "none"]

\* variant: DOWNGRADE_ONE_LEVEL moves the rating one tier up
FlaggedRaised(st, flag, action, takes) ==
    LET f == [st EXCEPT !.red_flags = Append(st.red_flags, flag)]
    IN  IF action = "DOWNGRADE_ONE_LEVEL" /\ "DOWNGRADE_ONE_LEVEL" \in takes
        THEN [f EXCEPT !.rating = CASE st.rating = "REDUCE/WAIT" -> "HOLD"
                                    [] st.rating = "HOLD" -> "ACCUMULATE"
                                    [] st.rating = "ACCUMULATE" -> "BUY"
                                    [] OTHER -> st.rating,
                       !.downgrades = st.downgrades + 1,
                       !.applied = "downgrade"]
        ELSE IF action = "IMMEDIATE_HOLD_REVIEW" /\ "IMMEDIATE_HOLD_REVIEW" \in takes
             THEN [f EXCEPT !.rating = "HOLD", !.sizing = "review_required",
                            !.reviews = st.reviews + 1,
                            !.applied = "hold_review"]
             ELSE [f EXCEPT !.applied = "flag_only"]

\* red_flags.append(...) and the action of a matched rule, for the actions
\* the branch of the condition takes
Flagged(st, flag, action, takes) ==
    LET f == [st EXCEPT !.red_flags = Append(st.red_flags, flag)]
    IN  IF action = "DOWNGRADE_ONE_LEVEL" /\ "DOWNGRADE_ONE_LEVEL" \in takes
        THEN [f EXCEPT !.rating = Downgrade(st.rating),
                       !.downgrades = st.downgrades + 1,
                       !.applied = "downgrade"]
        ELSE IF action = "IMMEDIATE_HOLD_REVIEW" /\ "IMMEDIATE_HOLD_REVIEW" \in takes
             THEN [f EXCEPT !.rating = "HOLD", !.sizing = "review_required",
                            !.reviews = st.reviews + 1,
                            !.applied = "hold_review"]
             ELSE [f EXCEPT !.applied = "flag_only"]

\* one iteration of the loop over red_flag_rules
RedFlagStep(st0, rule, breakdown, inputs) ==
    LET st == [st0 EXCEPT !.applied = "none", !.idx = st0.idx + 1]
        f == FindIndicator(breakdown, rule.id)
        raw == f.item.raw
        lcr == Get(inputs, "lcr")
        nsfr == Get(inputs, "nsfr")
    IN  IF ~f.found THEN st
        ELSE IF rule.cond = "< 10.0" /\ raw.t # "none"
        THEN IF BelowRaises(raw) THEN [st EXCEPT !.raised = TRUE]
             ELSE IF Below(raw, R(10))
                  THEN Flagged(st, <<rule.id, rule.cond>>, rule.action,
                               {"DOWNGRADE_ONE_LEVEL", "IMMEDIATE_HOLD_REVIEW"})
                  ELSE st
        ELSE IF rule.cond = "LCR < 100 or NSFR < 100"
        THEN IF BelowRaises(lcr) \/ (~Below(lcr, Hundred) /\ BelowRaises(nsfr))
             THEN [st EXCEPT !.raised = TRUE]
             ELSE IF Below(lcr, Hundred) \/ Below(nsfr, Hundred)
                  THEN Flagged(st, <<rule.id, rule.cond>>, rule.action,
                               {"DOWNGRADE_ONE_LEVEL"})
                  ELSE st
        ELSE IF rule.cond = "drops_to_none"
        THEN IF raw = Str("none")
             THEN Flagged(st, <<rule.id, rule.cond>>, rule.action,
                          {"DOWNGRADE_ONE_LEVEL"})
             ELSE st
        ELSE IF rule.cond = "true"
        THEN Flagged(st, <<rule.id, "manual_trigger">>, rule.action,
                     {"IMMEDIATE_HOLD_REVIEW"})
        ELSE st

-----------------------------------------------------------------------------
(* _evaluate_trigger: Python string operations and the trigger grammar *)

\* sub in s
Contains(s, sub) ==
    \E i \in 1..(Len(s) - Len(sub) + 1) : SubSeq(s, i, i + Len(sub) - 1) = sub

\* position of the first occurrence of sub in s, 0 when there is none
Find(s, sub) ==
    IF Contains(s, sub)
    THEN CHOOSE i \in 1..(Len(s) - Len(sub) + 1) :
            /\ SubSeq(s, i, i + Len(sub) - 1) = sub
            /\ \A k \in 1..(i - 1) : SubSeq(s, k, k + Len(sub) - 1) # sub
    ELSE 0

\* s.split(sep)
RECURSIVE Split(_, _)
Split(s, sep) ==
    LET i == Find(s, sep)
    IN  IF i = 0 THEN <<s>>
        ELSE <<SubSeq(s, 1, i - 1)>> \o Split(SubSeq(s, i + Len(sep), Len(s)), sep)

RECURSIVE LStrip(_)
LStrip(s) ==
    IF Len(s) > 0 /\ SubSeq(s, 1, 1) = " " THEN LStrip(SubSeq(s, 2, Len(s))) ELSE s

RECURSIVE RStrip(_)
RStrip(s) ==
    IF Len(s) > 0 /\ SubSeq(s, Len(s), Len(s)) = " "
    THEN RStrip(SubSeq(s, 1, Len(s) - 1)) ELSE s

\* s.strip()
Strip(s) == RStrip(LStrip(s))

\* s.split()[0]; "" stands for the IndexError of an all-blank string
FirstToken(s) ==
    LET t == LStrip(s)
        i == Find(t, " ")
    IN  IF i = 0 THEN t ELSE SubSeq(t, 1, i - 1)

DigitValue ==
    ("0" :> 0) @@ ("1" :> 1) @@ ("2" :> 2) @@ ("3" :> 3) @@ ("4" :> 4) @@
    ("5" :> 5) @@ ("6" :> 6) @@ ("7" :> 7) @@ ("8" :> 8) @@ ("9" :> 9)

IsDigits(s) ==
    Len(s) > 0 /\ \A i \in 1..Len(s) : SubSeq(s, i, i) \in DOMAIN DigitValue

RECURSIVE DigitsValue(_)
DigitsValue(s) ==
    IF Len(s) = 0 THEN 0
    ELSE 10 * DigitsValue(SubSeq(s, 1, Len(s) - 1)) + DigitValue[SubSeq(s, Len(s), Len(s))]

RECURSIVE PowerOfTen(_)
PowerOfTen(n) == IF n = 0 THEN 1 ELSE 10 * PowerOfTen(n - 1)

\* float(token) for decimal literals [-]digits[.digits]; anything else is
\* the ValueError outcome
ParseFloat(tok) ==
    LET neg == Len(tok) > 0 /\ SubSeq(tok, 1, 1) = "-"
        body == IF neg THEN SubSeq(tok, 2, Len(tok)) ELSE tok
        dot == Find(body, ".")
        whole == IF dot = 0 THEN body ELSE SubSeq(body, 1, dot - 1)
        frac == IF dot = 0 THEN "" ELSE SubSeq(body, dot + 1, Len(body))
        sign == IF neg THEN -1 ELSE 1
    IN  IF dot = 0
        THEN IF IsDigits(whole) THEN Ok(R(sign * DigitsValue(whole))) ELSE Raise
        ELSE IF (IsDigits(whole) \/ whole = "") /\ (IsDigits(frac) \/ frac = "")
                /\ (whole # "" \/ frac # "")
             THEN Ok(Norm(sign * (DigitsValue(whole) * PowerOfTen(Len(frac))
                                  + DigitsValue(frac)),
                          PowerOfTen(Len(frac))))
             ELSE Raise

\* float(parts[1].split()[0]) of a split trigger
Threshold(parts) ==
    IF Len(parts) < 2 \/ FirstToken(parts[2]) = "" THEN Raise
    ELSE ParseFloat(FirstToken(parts[2]))

\* <id> score >= <n>
ScoreTrigger(trigger, breakdown) ==
    LET parts == Split(trigger, " score >=")
        th == Threshold(parts)
        f == FindIndicator(breakdown, Strip(parts[1]))
    IN  IF th.raised THEN FALSE
        ELSE f.found /\ RLe(th.v, f.item.score)

\* variant: a field that is missing from the inputs makes the trigger false
FieldTriggerMissingFalse(trigger, inputs) ==
    LET parts == Split(trigger, ">=")
        th == Threshold(parts)
        field == Strip(parts[1])
    IN  IF th.raised THEN FALSE
        ELSE /\ field \in DOMAIN inputs
             /\ inputs[field].t = "num" /\ RLe(th.v, inputs[field].n)

\* <field> >= <n>; inputs.get(field, 0)
FieldTrigger(trigger, inputs) ==
    LET parts == Split(trigger, ">=")
        th == Threshold(parts)
        field == Strip(parts[1])
        v == IF field \in DOMAIN inputs THEN inputs[field] ELSE Num(R(0))
    IN  IF th.raised THEN FALSE
        ELSE v.t = "num" /\ RLe(th.v, v.n)

\* variant: the red-flag list is not consulted
NoRedFlagsIgnored(red_flags) == TRUE

\* len(red_flags) == 0
NoRedFlags(red_flags) == Len(red_flags) = 0

\* a part list that is the trigger itself recurses until RecursionError,
\* which the except clause turns into False
RECURSIVE EvaluateTrigger(_, _, _, _, _)
EvaluateTrigger(trigger, breakdown, category_scores, inputs, red_flags) ==
    IF Contains(trigger, "score >=") THEN ScoreTrigger(trigger, breakdown)
    ELSE IF Contains(trigger, ">=") /\ ~Contains(trigger, "score")
    THEN FieldTrigger(trigger, inputs)
    ELSE IF Contains(trigger, "no_red_flags") THEN NoRedFlags(red_flags)
    ELSE IF Contains(trigger, "core_fundamentals_weighted")
    THEN RLe(R(75), WeightOf(category_scores, "core_fundamentals"))
    ELSE IF Contains(trigger, "AND")
    THEN LET conditions == Split(trigger, " AND ")
         IN  /\ Len(conditions) > 1
             /\ \A i \in 1..Len(conditions) :
                   EvaluateTrigger(Strip(conditions[i]), breakdown,
                                   category_scores, inputs, red_flags)
    ELSE IF Contains(trigger, "OR")
    THEN LET conditions == Split(trigger, " OR ")
         IN  /\ Len(conditions) > 1
             /\ \E i \in 1..Len(conditions) :
                   EvaluateTrigger(Strip(conditions[i]), breakdown,
                                   category_scores, inputs, red_flags)
    ELSE FALSE

\* variant: the loop stops at the first trigger that is false
RECURSIVE TriggeredUntilFalse(_, _, _, _, _, _)
TriggeredUntilFalse(triggers, prefix, breakdown, category_scores, inputs, red_flags) ==
    IF triggers = <<>> THEN <<>>
    ELSE IF EvaluateTrigger(Head(triggers), breakdown, category_scores,
                            inputs, red_flags)
         THEN <<prefix \o Head(triggers)>>
              \o TriggeredUntilFalse(Tail(triggers), prefix, breakdown,
                                     category_scores, inputs, red_flags)
         ELSE <<>>

\* for trigger in triggers: if _evaluate_trigger(...): triggered.append(...)
RECURSIVE Triggered(_, _, _, _, _, _)
Triggered(triggers, prefix, breakdown, category_scores, inputs, red_flags) ==
    IF triggers = <<>> THEN <<>>
    ELSE (IF EvaluateTrigger(Head(triggers), breakdown, category_scores,
                             inputs, red_flags)
          THEN <<prefix \o Head(triggers)>> ELSE <<>>)
         \o Triggered(Tail(triggers), prefix, breakdown, category_scores,
                      inputs, red_flags)

\* the nesting of _evaluate_trigger calls the interpreter's recursion limit
\* admits; the call that would exceed it raises RecursionError in the caller
MaxDepth == 4

\* _evaluate_trigger with its recursive calls counted: e holds breakdown,
\* category_scores, inputs and red_flags, depth is the nesting of the call;
\* all() stops at the first false condition, any() at the first true one
RECURSIVE TriggerRun(_, _, _)
RECURSIVE AllConditions(_, _, _)
RECURSIVE AnyCondition(_, _, _)

AllConditions(conditions, e, depth) ==
    IF conditions = <<>> THEN [value |-> TRUE, calls |-> 0]
    ELSE \* the first condition, then the others
         LET r == TriggerRun(Strip(Head(conditions)), e, depth + 1)
         IN  IF r.value
             THEN [value |-> AllConditions(Tail(conditions), e, depth).value,
                   calls |-> 1 + r.calls
                             + AllConditions(Tail(conditions), e, depth).calls]
             ELSE [value |-> FALSE, calls |-> 1 + r.calls]

AnyCondition(conditions, e, depth) ==
    IF conditions = <<>> THEN [value |-> FALSE, calls |-> 0]
    ELSE LET r == TriggerRun(Strip(Head(conditions)), e, depth + 1)
         IN  IF r.value
             THEN [value |-> TRUE, calls |-> 1 + r.calls]
             ELSE [value |-> AnyCondition(Tail(conditions), e, depth).value,
                   calls |-> 1 + r.calls
                             + AnyCondition(Tail(conditions), e, depth).calls]

TriggerRun(trigger, e, depth) ==
    IF Contains(trigger, "score >=")
    THEN [value |-> ScoreTrigger(trigger, e.breakdown), calls |-> 0]
    ELSE IF Contains(trigger, ">=") /\ ~Contains(trigger, "score")
    THEN [value |-> FieldTrigger(trigger, e.inputs), calls |-> 0]
    ELSE IF Contains(trigger, "no_red_flags")
    THEN [value |-> NoRedFlags(e.red_flags), calls |-> 0]
    ELSE IF Contains(trigger, "core_fundamentals_weighted")
    THEN [value |-> RLe(R(75), WeightOf(e.category_scores, "core_fundamentals")),
          calls |-> 0]
    ELSE IF Contains(trigger, "AND")
    THEN IF depth >= MaxDepth THEN [value |-> FALSE, calls |-> 0]
         ELSE AllConditions(Split(trigger, " AND "), e, depth)
    ELSE IF Contains(trigger, "OR")
    THEN IF depth >= MaxDepth THEN [value |-> FALSE, calls |-> 0]
         ELSE AnyCondition(Split(trigger, " OR "), e, depth)
    ELSE [value |-> FALSE, calls |-> 0]

-----------------------------------------------------------------------------
(* score_stock *)

\* merged_inputs = inputs.copy(); merged_inputs[key] = value for the overrides
MergeOverrides(inputs, overrides) ==
    [f \in DOMAIN inputs \cup DOMAIN overrides |->
        IF f \in DOMAIN overrides THEN overrides[f] ELSE inputs[f]]

LowerCase ==
    ("A" :> "a") @@ ("B" :> "b") @@ ("C" :> "c") @@ ("D" :> "d") @@ ("E" :> "e") @@
    ("F" :> "f") @@ ("G" :> "g") @@ ("H" :> "h") @@ ("I" :> "i") @@ ("J" :> "j") @@
    ("K" :> "k") @@ ("L" :> "l") @@ ("M" :> "m") @@ ("N" :> "n") @@ ("O" :> "o") @@
    ("P" :> "p") @@ ("Q" :> "q") @@ ("R" :> "r") @@ ("S" :> "s") @@ ("T" :> "t") @@
    ("U" :> "u") @@ ("V" :> "v") @@ ("W" :> "w") @@ ("X" :> "x") @@ ("Y" :> "y") @@
    ("Z" :> "z")

\* s.lower()
RECURSIVE Lower(_)
Lower(s) ==
    IF Len(s) = 0 THEN ""
    ELSE (IF SubSeq(s, 1, 1) \in DOMAIN LowerCase THEN LowerCase[SubSeq(s, 1, 1)]
          ELSE SubSeq(s, 1, 1)) \o Lower(SubSeq(s, 2, Len(s)))

\* the first hint that equals sub_key up to case and is a key of merged
RECURSIVE AliasHint(_, _, _)
AliasHint(hints, sub_key, merged) ==
    IF hints = <<>> THEN ""
    ELSE IF Lower(Head(hints)) = Lower(sub_key) /\ Head(hints) \in DOMAIN merged
         THEN Head(hints)
         ELSE AliasHint(Tail(hints), sub_key, merged)

RECURSIVE AliasSubs(_, _, _)
AliasSubs(subs, hints, merged) ==
    IF subs = <<>> THEN merged
    ELSE LET k == Head(subs).k
             h == AliasHint(hints, k, merged)
         IN  AliasSubs(Tail(subs), hints,
                       IF k \notin DOMAIN merged /\ h # ""
                       THEN (k :> merged[h]) @@ merged
                       ELSE merged)

\* the loop that copies a hint's value under a composite sub-indicator's key
RECURSIVE ResolveComposite(_, _)
ResolveComposite(indicators, merged) ==
    IF indicators = <<>> THEN merged
    ELSE ResolveComposite(
            Tail(indicators),
            IF Head(indicators).scoring.type = "composite_avg"
            THEN AliasSubs(Head(indicators).scoring.sub,
                           IF Head(indicators).has_fetch
                           THEN Head(indicators).hints ELSE <<>>,
                           merged)
            ELSE merged)

\* _generate_advice: one fixed text per rating
\* variant: merged_inputs is the caller's dict itself
CallerInputsAliased(indicators, inputs, overrides) ==
    ResolveComposite(indicators, MergeOverrides(inputs, overrides))

\* the caller's inputs after the merge: merged_inputs is inputs.copy(), the
\* overrides and the composite aliases are written to the copy
CallerInputs(indicators, inputs, overrides) == inputs

GenerateAdvice(rating) ==
    CASE rating = "BUY" -> "add or overweight"
      [] rating = "ACCUMULATE" -> "accumulate on pullbacks"
      [] rating = "HOLD" -> "hold and watch"
      [] rating = "REDUCE/WAIT" -> "reduce or wait"
      [] OTHER -> "evaluate with caution"

RECURSIVE AllWarnings(_)
AllWarnings(breakdown) ==
    IF breakdown = <<>> THEN <<>>
    ELSE Head(breakdown).warnings \o AllWarnings(Tail(breakdown))

\* the dict score_stock returns
Report(config, breakdown, aggregate, decision, now) ==
    [meta |-> [stock |-> config.meta.stock, as_of |-> now,
               scoring_version |-> config.meta.scoring_version,
               warnings |-> AllWarnings(breakdown)],
     breakdown |-> breakdown,
     category_scores |-> aggregate.category_scores,
     total_score |-> aggregate.total_score,
     rating |-> decision.rating,
     sizing |-> decision.sizing,
     triggered |-> decision.triggered,
     advice |-> GenerateAdvice(decision.rating)]

-----------------------------------------------------------------------------
(* Indicator specs, inputs and peer samples handed to score_indicator *)

MaxPeerLen == 3

ScoringBase ==
    [type |-> "mystery", breakpoints |-> <<>>, peer |-> "",
     relation |-> [median |-> FALSE, key |-> ""], mapping |-> <<>>,
     x |-> "x", y |-> "y", grid |-> <<>>, default |-> R(60),
     map |-> <<>>, sub |-> <<>>, beta |-> <<<<7, 10>>, <<11, 10>>>>]

BP == <<<<R(0), R(0)>>, <<R(10), R(100)>>>>
BPReversed == <<<<R(10), R(100)>>, <<R(0), R(0)>>>>
BPOutOfRange == <<<<R(0), R(-50)>>, <<R(10), R(150)>>>>
BPFull == <<<<R(0), R(0)>>, <<R(100), R(100)>>>>
RatioMapping == <<<<R(0), R(120)>>, <<R(2), R(-20)>>>>

Cell(xr, yr, sc) == [x |-> xr, y |-> yr, score |-> sc]
Grid ==
    <<Cell(<<R(0), R(5)>>, <<R(0), R(5)>>, R(40)),
      Cell(<<R(0), R(20)>>, <<R(0), R(20)>>, R(130)),
      Cell(<<R(0)>>, <<R(0), R(5)>>, R(90))>>
LowGrid == <<Cell(<<R(0), R(5)>>, <<R(0), R(5)>>, R(-30))>>
MidGrid == <<Cell(<<R(0), R(5)>>, <<R(0), R(5)>>, R(40)),
             Cell(<<R(0), R(20)>>, <<R(5), R(20)>>, R(50))>>

CategoryMap == ("buy" :> R(120)) @@ ("5" :> R(-10)) @@ ("2" :> R(90))

Scorings ==
    {[ScoringBase EXCEPT !.type = "linear_thresholds", !.breakpoints = BP],
     [ScoringBase EXCEPT !.type = "linear_thresholds", !.breakpoints = BPOutOfRange],
     [ScoringBase EXCEPT !.type = "linear_thresholds"],
     [ScoringBase EXCEPT !.type = "count_thresholds", !.breakpoints = BPReversed],
     [ScoringBase EXCEPT !.type = "peer_percentile", !.peer = "p"],
     [ScoringBase EXCEPT !.type = "peer_percentile"],
     [ScoringBase EXCEPT !.type = "relative_to_peer",
                         !.relation = [median |-> TRUE, key |-> "p"],
                         !.mapping = RatioMapping],
     [ScoringBase EXCEPT !.type = "relative_to_peer"],
     [ScoringBase EXCEPT !.type = "two_dim", !.grid = Grid, !.default = R(-20)],
     [ScoringBase EXCEPT !.type = "two_dim", !.grid = LowGrid, !.default = R(140)],
     [ScoringBase EXCEPT !.type = "two_dim", !.grid = MidGrid],
     [ScoringBase EXCEPT !.type = "policy_phase", !.map = CategoryMap],
     [ScoringBase EXCEPT !.type = "stage", !.map = CategoryMap],
     [ScoringBase EXCEPT !.type = "categorical", !.map = CategoryMap],
     [ScoringBase EXCEPT !.type = "composite_avg",
                         !.sub = <<[k |-> "y", breakpoints |-> BP],
                                   [k |-> "z", breakpoints |-> BPOutOfRange]>>],
     [ScoringBase EXCEPT !.type = "relative_index", !.breakpoints = BPOutOfRange],
     [ScoringBase EXCEPT !.type = "two_dim_invert"],
     ScoringBase}

Directions == {"higher_is_better", "lower_is_better"}

Indicator(i, c, w, dir, hf, hs, sc) ==
    [id |-> i, category |-> c, weight |-> w, direction |-> dir,
     has_fetch |-> hf, hints |-> hs, scoring |-> sc]

\* indicators that name their fields, and indicators read by their own id
Indicators ==
    {Indicator("p", "core", R(50), dir, TRUE, <<"x", "y">>, sc) :
        dir \in Directions, sc \in Scorings}
    \cup
    {Indicator("y", "core", R(50), dir, FALSE, <<>>, sc) :
        dir \in Directions, sc \in {s \in Scorings : s.type = "linear_thresholds"}}

XVals == {None, NaN, Num(R(-5)), Num(R(2)), Num(R(5)), Num(R(15)), Str("buy")}
YVals == {None, NaN, Num(R(5)), Str("buy")}
RVals == {None, Num(R(5)), Str("buy")}

FieldVals(f) ==
    CASE f = "x" -> XVals
      [] f = "y" -> YVals
      [] OTHER -> RVals

InputFields == {"x", "y", "relative_return_pct"}

InputSets ==
    UNION {{i \in [F -> XVals \cup YVals \cup RVals] :
               \A f \in F : i[f] \in FieldVals(f)} : F \in SUBSET InputFields}

UsesPeers(i) == i.scoring.type \in {"peer_percentile", "relative_to_peer"}

\* the inputs tried with an indicator: peer scoring reads only the raw value
InputsFor(i) ==
    IF UsesPeers(i) THEN {inp \in InputSets : DOMAIN inp \subseteq {"x"}}
    ELSE InputSets

PeerElems == {None, Num(R(1)), Num(R(2)), Num(R(3))}
Samples == UNION {[1..n -> PeerElems] : n \in 0..MaxPeerLen}
NoPeers == <<>>

PeersFor(i) ==
    IF UsesPeers(i) THEN {NoPeers} \cup {("p" :> sm) : sm \in Samples}
    ELSE {NoPeers}

-----------------------------------------------------------------------------
(* Configuration documents handed to load_config *)

MaxInd == 2
MaxApps == 3

CatNames == {"core", "tech"}
WeightVals == {R(0), R(40), R(60), R(100), <<10001, 100>>}
IndWeightVals == {R(0), R(20), R(40), <<81, 2>>}

PlainIndicator(i, c, w) ==
    [id |-> i, category |-> c, weight |-> w]

IndicatorLists ==
    UNION {[1..n -> CatNames \X IndWeightVals] : n \in 0..MaxInd}

Docs ==
    {[has_weights |-> hw, has_indicators |-> hi,
      weights |-> w,
      indicators |-> [i \in 1..Len(l) |-> PlainIndicator(i, l[i][1], l[i][2])]] :
        hw \in BOOLEAN, hi \in BOOLEAN,
        w \in UNION {[S -> WeightVals] : S \in SUBSET CatNames},
        l \in IndicatorLists}

\* a document is written without the keys it lacks
WellFormedDoc(d) ==
    /\ (~d.has_weights => d.weights = <<>>)
    /\ (~d.has_indicators => d.indicators = <<>>)

-----------------------------------------------------------------------------
(* Configurations, inputs and overrides handed to score_stock *)

MaxIndicators == 2
MaxCalls == 2

DecisionRules(ladder, flags, buy, trim) ==
    [score_to_rating |-> ladder, red_flags |-> flags,
     buy_triggers |-> buy, trim_triggers |-> trim]

StandardLadder ==
    <<RatingRule(R(0), "REDUCE/WAIT", "underweight"),
      RatingRule(R(55), "HOLD", "neutral"),
      RatingRule(R(70), "BUY", "overweight")>>

FourTierLadder ==
    <<RatingRule(R(0), "REDUCE/WAIT", "underweight"),
      RatingRule(R(30), "HOLD", "neutral"),
      RatingRule(R(50), "ACCUMULATE", "build"),
      RatingRule(R(70), "BUY", "overweight")>>

DescendingLadder ==
    <<RatingRule(R(70), "BUY", "overweight"),
      RatingRule(R(55), "HOLD", "neutral"),
      RatingRule(R(0), "REDUCE/WAIT", "underweight")>>

HighLadder ==
    <<RatingRule(R(55), "HOLD", "neutral"),
      RatingRule(R(70), "BUY", "overweight")>>

StockRules ==
    {DecisionRules(StandardLadder,
                   <<RedFlagRule("roe", "< 10.0", "DOWNGRADE_ONE_LEVEL"),
                     RedFlagRule("stage", "drops_to_none", "DOWNGRADE_ONE_LEVEL")>>,
                   <<"roe score >= 70", "x >= 10 AND no_red_flags">>,
                   <<"no_red_flags">>),
     DecisionRules(FourTierLadder,
                   <<RedFlagRule("roe", "true", "IMMEDIATE_HOLD_REVIEW")>>,
                   <<"core_fundamentals_weighted">>,
                   <<"pb score >= 90 OR no_red_flags">>),
     DecisionRules(<<>>, <<>>, <<>>, <<>>)}

\* the indicators a stock configuration is assembled from
Catalog ==
    <<Indicator("roe", "core", R(100), "higher_is_better", TRUE, <<"x">>,
                [ScoringBase EXCEPT !.type = "linear_thresholds",
                                    !.breakpoints = BPFull]),
      Indicator("pb", "core", R(50), "lower_is_better", TRUE, <<"x", "y">>,
                [ScoringBase EXCEPT !.type = "peer_percentile", !.peer = "p"]),
      Indicator("stage", "core_fundamentals", R(40), "higher_is_better", TRUE,
                <<"y">>,
                [ScoringBase EXCEPT !.type = "categorical", !.map = CategoryMap]),
      Indicator("liq", "other", R(10), "higher_is_better", FALSE, <<>>,
                ScoringBase),
      Indicator("comp", "core_fundamentals", R(0), "higher_is_better", TRUE,
                <<"Z">>,
                [ScoringBase EXCEPT !.type = "composite_avg",
                                    !.sub = <<[k |-> "z", breakpoints |-> BP]>>])>>

\* the order-preserving selections of at most MaxIndicators catalog entries
RECURSIVE Pick(_, _)
Pick(catalog, chosen) ==
    IF catalog = <<>> THEN <<>>
    ELSE (IF 1 \in chosen THEN <<Head(catalog)>> ELSE <<>>)
         \o Pick(Tail(catalog), {i - 1 : i \in chosen \ {1}})

StockIndicatorLists ==
    {Pick(Catalog, S) : S \in {T \in SUBSET (1..Len(Catalog)) :
                                  Cardinality(T) <= MaxIndicators}}

StockWeights ==
    {("core" :> R(100)),
     ("core" :> R(60)) @@ ("core_fundamentals" :> R(40)),
     ("core" :> R(50)) @@ ("core_fundamentals" :> R(30))}

StockDocs ==
    {[has_weights |-> TRUE, has_indicators |-> TRUE, weights |-> w,
      indicators |-> l, decision_rules |-> r,
      meta |-> [stock |-> "BK", scoring_version |-> "v1"]] :
        w \in StockWeights, l \in StockIndicatorLists, r \in StockRules}

\* score_stock is handed configurations that load_config returned
StockConfigs ==
    {LoadConfig(d).config : d \in {e \in StockDocs : ~LoadConfig(e).raised}}

StockInputs ==
    {i \in UNION {[F -> {None, Num(R(5)), Num(R(40)), Str("buy"), Str("none")}] :
                     F \in SUBSET {"x", "y", "Z"}} :
        /\ ("x" \in DOMAIN i => i["x"] # Str("none"))
        /\ ("y" \in DOMAIN i => i["y"] \in {Num(R(5)), Str("none")})
        /\ ("Z" \in DOMAIN i => i["Z"] = Num(R(5)))}

StockOverrides == {<<>>, ("x" :> Num(R(90))), ("x" :> None)}

StockPeers == {("p" :> <<Num(R(1)), Num(R(2)), Num(R(3))>>)}

Times == {1, 2}

NoStockConfig ==
    [has_weights |-> FALSE, has_indicators |-> FALSE, weights |-> <<>>,
     indicators |-> <<>>, decision_rules |-> DecisionRules(<<>>, <<>>, <<>>, <<>>),
     meta |-> [stock |-> "", scoring_version |-> ""], normalized |-> FALSE]

-----------------------------------------------------------------------------
(* Arguments handed to apply_decision_rules when it is called directly *)

MaxRules == 2

RuleCatalog ==
    {RedFlagRule("roe", "< 10.0", "DOWNGRADE_ONE_LEVEL"),
     RedFlagRule("roe", "< 10.0", "IMMEDIATE_HOLD_REVIEW"),
     RedFlagRule("liq", "LCR < 100 or NSFR < 100", "DOWNGRADE_ONE_LEVEL"),
     RedFlagRule("liq", "LCR < 100 or NSFR < 100", "IMMEDIATE_HOLD_REVIEW"),
     RedFlagRule("stage", "drops_to_none", "DOWNGRADE_ONE_LEVEL"),
     RedFlagRule("manual", "true", "IMMEDIATE_HOLD_REVIEW"),
     RedFlagRule("manual", "true", "DOWNGRADE_ONE_LEVEL"),
     RedFlagRule("ghost", "true", "IMMEDIATE_HOLD_REVIEW")}

RedFlagLists == UNION {[1..n -> RuleCatalog] : n \in 0..MaxRules}

Ladders == {StandardLadder, FourTierLadder, DescendingLadder, HighLadder, <<>>}

Totals == {R(40), R(60), R(72)}

Item(i, c, raw, score) ==
    [id |-> i, raw |-> raw, score |-> score, weight |-> R(25), category |-> c,
     warnings |-> <<>>, has_pm |-> FALSE, pm |-> None]

\* breakdown and merged inputs of a call
DecisionData ==
    {[breakdown |-> <<Item("roe", "core_fundamentals", Num(R(5)), R(90)),
                      Item("liq", "core_fundamentals", Num(R(90)), R(60)),
                      Item("stage", "digital", Str("none"), R(0)),
                      Item("manual", "digital", Num(R(1)), R(50))>>,
      inputs |-> ("lcr" :> Num(R(90))) @@ ("nsfr" :> Num(R(121)))],
     [breakdown |-> <<Item("roe", "core_fundamentals", Num(R(15)), R(90)),
                      Item("liq", "core_fundamentals", Num(R(112)), R(60)),
                      Item("stage", "digital", Str("live"), R(80)),
                      Item("manual", "digital", Num(R(1)), R(50))>>,
      inputs |-> ("lcr" :> Num(R(112))) @@ ("nsfr" :> Num(R(121)))],
     [breakdown |-> <<Item("roe", "core_fundamentals", None, R(0)),
                      Item("liq", "core_fundamentals", None, R(0)),
                      Item("manual", "digital", Num(R(1)), R(50))>>,
      inputs |-> ("nsfr" :> Num(R(90)))],
     [breakdown |-> <<Item("roe", "core_fundamentals", Str("n/a"), R(0)),
                      Item("liq", "core_fundamentals", Num(R(112)), R(60)),
                      Item("manual", "digital", Num(R(1)), R(50))>>,
      inputs |-> ("lcr" :> Num(R(112))) @@ ("nsfr" :> Str("n/a"))]}

DecisionCategoryScores ==
    ("core_fundamentals" :> R(75)) @@ ("digital" :> R(85))

DecisionConfig(ladder, flags) ==
    [NoStockConfig EXCEPT
        !.decision_rules =
            DecisionRules(ladder, flags,
                          <<"roe score >= 70", "lcr >= 100 AND no_red_flags">>,
                          <<"core_fundamentals_weighted", "no_red_flags">>)]

-----------------------------------------------------------------------------
(* Initial states: one operation is called, the others are idle *)

NoConfig ==
    [has_weights |-> FALSE, has_indicators |-> FALSE, weights |-> <<>>,
     indicators |-> <<>>, normalized |-> FALSE]

IdleLoad ==
    /\ doc = [has_weights |-> FALSE, has_indicators |-> FALSE,
              weights |-> <<>>, indicators |-> <<>>]
    /\ lc = "idle"
    /\ cfg = NoConfig
    /\ napps = 0

NoOutcome == [raised |-> FALSE, dispatched |-> FALSE, result |-> NoResult]

IdleInd ==
    /\ si_ind = Indicator("", "", R(0), "higher_is_better", FALSE, <<>>, ScoringBase)
    /\ si_inputs = <<>>
    /\ si_peers = NoPeers
    /\ ipc = "idle"
    /\ ires = NoOutcome

NoAggregate == [category_scores |-> <<>>, total_score |-> R(0)]
NoDecision == DecisionStart(LadderDefault)
NoReport == <<>>
IdleStock ==
    /\ s_config = NoStockConfig
    /\ s_inputs = <<>>
    /\ s_overrides = <<>>
    /\ s_peers = NoPeers
    /\ merged_inputs = <<>>
    /\ s_breakdown = <<>>
    /\ ran = <<>>
    /\ agg = NoAggregate
    /\ dec = NoDecision
    /\ report = NoReport
    /\ pc = "idle"
    /\ mode = "idle"
    /\ ncalls = 0
    /\ prev_report = NoReport

-----------------------------------------------------------------------------
(* Values and breakpoint lists handed to _linear_interpolate *)

\* every listing order of the elements of s
Orderings(s) ==
    {[i \in 1..Len(s) |-> s[f[i]]] :
        f \in {g \in [1..Len(s) -> 1..Len(s)] :
                  \A i, j \in 1..Len(s) : g[i] = g[j] => i = j}}

BPSingle == <<<<R(5), R(40)>>>>
BPThree == <<<<R(0), R(20)>>, <<R(5), R(80)>>, <<R(10), R(50)>>>>
BPStep == <<<<R(0), R(0)>>, <<R(5), R(0)>>, <<R(5), R(100)>>, <<R(10), R(100)>>>>

LiValues == {NaN, Num(R(-5)), Num(R(0)), Num(R(2)), Num(R(5)), Num(R(10)), Num(R(15))}

LiBreakpoints ==
    {<<>>, BPSingle, BPOutOfRange}
    \cup Orderings(BP) \cup Orderings(BPThree) \cup Orderings(BPStep)

-----------------------------------------------------------------------------
(* Triggers and their environment handed to _evaluate_trigger *)

\* decimal literals and the numbers they denote
Literals ==
    ("70" :> R(70)) @@ ("1" :> R(1)) @@ ("0" :> R(0)) @@ ("-5" :> R(-5))
    @@ ("2.5" :> <<5, 2>>)

TriggerIds == {"roe", "ghost"}
TriggerFields == {"x", "q"}

ScoreTriggers == {id \o " score >= " \o lit : id \in TriggerIds, lit \in DOMAIN Literals}
FieldTriggers == {f \o " >= " \o lit : f \in TriggerFields, lit \in DOMAIN Literals}

TriggerStrings ==
    ScoreTriggers \cup FieldTriggers
    \cup {"no_red_flags", "core_fundamentals_weighted",
          "x >= 10 AND no_red_flags", "roe score >= abc", "q >= ",
          "zscore >= -5", "a AND b", "a OR b", "a OR b AND c",
          "zscore OR q >= -5", "BRAND", "FLOOR", "FLOOR AND BRAND"}

TriggerBreakdowns ==
    {<<>>,
     <<Item("roe", "core_fundamentals", Num(R(15)), R(90))>>,
     <<Item("pb", "valuation", Num(R(1)), R(95)),
       Item("roe", "core_fundamentals", Num(R(8)), R(40))>>}

TriggerCategoryScores ==
    {<<>>, ("core_fundamentals" :> R(80)), ("core_fundamentals" :> R(60))}

TriggerInputs ==
    {<<>>, ("x" :> Num(R(5))), ("x" :> Num(R(40))) @@ ("q" :> Num(R(-7))),
     ("x" :> None)}

TriggerRedFlags == {<<>>, <<<<"roe", "< 10.0">>>>}

\* no helper has been called on its own
NoInterpolation == [value |-> None, breakpoints |-> <<>>]
NoTrigger ==
    [trigger |-> "", breakdown |-> <<>>, category_scores |-> <<>>,
     inputs |-> <<>>, red_flags |-> <<>>]
NoVerdict == [value |-> FALSE, calls |-> 0]

IdleFn ==
    /\ li_call = NoInterpolation
    /\ li_result = Ok(R(0))
    /\ et_call = NoTrigger
    /\ et_result = NoVerdict
    /\ fpc = "idle"

\* _evaluate_trigger(trigger, breakdown, category_scores, inputs, red_flags)
\* has been called
InitTrig ==
    /\ et_call \in [trigger : TriggerStrings, breakdown : TriggerBreakdowns,
                    category_scores : TriggerCategoryScores,
                    inputs : TriggerInputs, red_flags : TriggerRedFlags]
    /\ et_result = NoVerdict
    /\ li_call = NoInterpolation
    /\ li_result = Ok(R(0))
    /\ fpc = "et_call"
    /\ IdleLoad
    /\ IdleInd
    /\ IdleStock

\* _linear_interpolate(value, breakpoints) has been called
InitInterp ==
    /\ li_call \in [value : LiValues, breakpoints : LiBreakpoints]
    /\ li_result = Ok(R(0))
    /\ et_call = NoTrigger
    /\ et_result = NoVerdict
    /\ fpc = "li_call"
    /\ IdleLoad
    /\ IdleInd
    /\ IdleStock

\* score_stock(config, inputs, peers, overrides) has been called
Init ==
    /\ s_config \in StockConfigs
    /\ s_inputs \in StockInputs
    /\ s_overrides \in StockOverrides
    /\ s_peers \in StockPeers
    /\ merged_inputs = <<>>
    /\ s_breakdown = <<>>
    /\ ran = <<>>
    /\ agg = NoAggregate
    /\ dec = NoDecision
    /\ report = NoReport
    /\ pc = "merge"
    /\ mode = "stock"
    /\ ncalls = 1
    /\ prev_report = NoReport
    /\ IdleLoad
    /\ IdleInd
    /\ IdleFn

\* apply_decision_rules(config, breakdown, category_scores, total, inputs)
\* has been called directly
InitDec ==
    /\ \E ladder \in Ladders, flags \in RedFlagLists :
          s_config = DecisionConfig(ladder, flags)
    /\ \E d \in DecisionData :
          /\ s_breakdown = d.breakdown
          /\ merged_inputs = d.inputs
    /\ \E t \in Totals :
          agg = [category_scores |-> DecisionCategoryScores, total_score |-> t]
    /\ s_inputs = <<>>
    /\ s_overrides = <<>>
    /\ s_peers = NoPeers
    /\ ran = <<>>
    /\ dec = NoDecision
    /\ report = NoReport
    /\ pc = "ladder"
    /\ mode = "decision"
    /\ ncalls = 0
    /\ prev_report = NoReport
    /\ IdleLoad
    /\ IdleInd
    /\ IdleFn

InitLoad ==
    /\ doc \in {d \in Docs : WellFormedDoc(d)}
    /\ lc = "start"
    /\ cfg = NoConfig
    /\ napps = 0
    /\ IdleInd
    /\ IdleStock
    /\ IdleFn

InitInd ==
    /\ si_ind \in Indicators
    /\ si_inputs \in InputsFor(si_ind)
    /\ si_peers \in PeersFor(si_ind)
    /\ ipc = "call"
    /\ ires = NoOutcome
    /\ IdleLoad
    /\ IdleStock
    /\ IdleFn

-----------------------------------------------------------------------------
(* Operations *)

\* load_config(path) on the document
LoadConfigCall ==
    /\ lc = "start"
    /\ LET r == LoadConfig(doc)
       IN  IF r.raised
           THEN /\ lc' = "raised"
                /\ UNCHANGED <<cfg, napps>>
           ELSE /\ lc' = "returned"
                /\ cfg' = r.config
                /\ napps' = 1
    /\ UNCHANGED <<doc, indVars, stockVars, fnVars>>

\* load_config applied again to the configuration it returned
LoadConfigAgain ==
    /\ lc = "returned"
    /\ napps < MaxApps
    /\ LET r == LoadConfig(cfg)
       IN  IF r.raised
           THEN /\ lc' = "raised"
                /\ UNCHANGED <<cfg, napps>>
           ELSE /\ lc' = "returned"
                /\ cfg' = r.config
                /\ napps' = napps + 1
    /\ UNCHANGED <<doc, indVars, stockVars, fnVars>>

NextLoad == LoadConfigCall \/ LoadConfigAgain

SpecLoad == InitLoad /\ [][NextLoad]_vars

\* score_indicator(ind, inputs, peers, context)
ScoreIndicatorCall ==
    /\ ipc = "call"
    /\ ires' = ScoreIndicator(si_ind, si_inputs, si_peers)
    /\ ipc' = IF ires'.raised THEN "raised" ELSE "returned"
    /\ UNCHANGED <<si_ind, si_inputs, si_peers, loadVars, stockVars, fnVars>>

NextInd == ScoreIndicatorCall

SpecInd == InitInd /\ [][NextInd]_vars

\* score_stock: overrides are merged and composite aliases resolved
MergeInputs ==
    /\ pc = "merge"
    /\ merged_inputs' = ResolveComposite(DocIndicators(s_config),
                                  MergeOverrides(s_inputs, s_overrides))
    /\ s_inputs' = CallerInputs(DocIndicators(s_config), s_inputs, s_overrides)
    /\ pc' = "score"
    /\ UNCHANGED <<s_config, s_overrides, s_peers, mode, s_breakdown, ran, agg,
                   dec, report, histVars, loadVars, indVars, fnVars>>

\* score_stock: one iteration of the loop over the indicators
ScoreNext ==
    /\ pc = "score"
    /\ Len(s_breakdown) < Len(DocIndicators(s_config))
    /\ \E o \in {ScoreIndicator(DocIndicators(s_config)[Len(s_breakdown) + 1],
                                 merged_inputs, s_peers)} :
          IF o.raised
          THEN /\ pc' = "raised"
               /\ UNCHANGED <<s_breakdown, ran>>
          ELSE /\ s_breakdown' = Append(s_breakdown, o.result)
               /\ ran' = Append(ran, o.dispatched)
               /\ pc' = "score"
    /\ s_peers' = PeersAfterScore(DocIndicators(s_config)[Len(s_breakdown) + 1],
                                  merged_inputs, s_peers)
    /\ UNCHANGED <<s_config, s_inputs, s_overrides, mode, merged_inputs, agg, dec,
                   report, histVars, loadVars, indVars, fnVars>>

\* score_stock: aggregate_scores(config, breakdown)
Aggregate ==
    /\ pc = "score"
    /\ Len(s_breakdown) = Len(DocIndicators(s_config))
    /\ agg' = AggregateScores(s_config, s_breakdown)
    /\ pc' = "ladder"
    /\ UNCHANGED <<callVars, merged_inputs, s_breakdown, ran, dec, report, histVars, loadVars, indVars, fnVars>>

\* apply_decision_rules: the score_to_rating loop
RatingLadder ==
    /\ pc = "ladder"
    /\ dec' = DecisionStart(Ladder(s_config.decision_rules.score_to_rating,
                                   agg.total_score, LadderDefault))
    /\ pc' = "red_flags"
    /\ UNCHANGED <<callVars, merged_inputs, s_breakdown, ran, agg, report, histVars, loadVars, indVars, fnVars>>

\* apply_decision_rules: one iteration of the red_flag_rules loop
RedFlagRuleStep ==
    /\ pc = "red_flags"
    /\ dec.idx < Len(s_config.decision_rules.red_flags)
    /\ dec' = RedFlagStep(dec, s_config.decision_rules.red_flags[dec.idx + 1],
                          s_breakdown, merged_inputs)
    /\ pc' = IF dec'.raised THEN "raised" ELSE "red_flags"
    /\ UNCHANGED <<callVars, merged_inputs, s_breakdown, ran, agg, report, histVars, loadVars, indVars, fnVars>>

\* apply_decision_rules: the buy and trim trigger loops and the return
EvaluateTriggers ==
    /\ pc = "red_flags"
    /\ dec.idx = Len(s_config.decision_rules.red_flags)
    /\ dec' = [dec EXCEPT
                 !.applied = "none",
                 !.triggered =
                    Triggered(s_config.decision_rules.buy_triggers, "BUY: ",
                              s_breakdown, agg.category_scores, merged_inputs,
                              dec.red_flags)
                    \o Triggered(s_config.decision_rules.trim_triggers, "TRIM: ",
                                 s_breakdown, agg.category_scores, merged_inputs,
                                 dec.red_flags)]
    /\ pc' = "decided"
    /\ UNCHANGED <<callVars, merged_inputs, s_breakdown, ran, agg, report, histVars, loadVars, indVars, fnVars>>

\* score_stock: the advice is generated and the report returned
ReturnReport ==
    /\ pc = "decided"
    /\ mode = "stock"
    /\ \E now \in Times : report' = Report(s_config, s_breakdown, agg, dec, now)
    /\ pc' = "done"
    /\ UNCHANGED <<callVars, merged_inputs, s_breakdown, ran, agg, dec, histVars, loadVars, indVars, fnVars>>

\* the caller calls score_stock again with the same arguments
ScoreStockAgain ==
    /\ pc = "done"
    /\ ncalls < MaxCalls
    /\ ncalls' = ncalls + 1
    /\ prev_report' = report
    /\ merged_inputs' = <<>>
    /\ s_breakdown' = <<>>
    /\ ran' = <<>>
    /\ agg' = NoAggregate
    /\ dec' = NoDecision
    /\ report' = NoReport
    /\ pc' = "merge"
    /\ UNCHANGED <<callVars, loadVars, indVars, fnVars>>

Next ==
    \/ MergeInputs
    \/ ScoreNext
    \/ Aggregate
    \/ RatingLadder
    \/ RedFlagRuleStep
    \/ EvaluateTriggers
    \/ ReturnReport
    \/ ScoreStockAgain

Spec == Init /\ [][Next]_vars

\* score_indicator called on its own, or by score_stock
InitScoring == InitInd \/ Init

NextScoring == NextInd \/ Next

SpecScoring == InitScoring /\ [][NextScoring]_vars

NextDec == RatingLadder \/ RedFlagRuleStep \/ EvaluateTriggers

SpecDec == InitDec /\ [][NextDec]_vars

\* _linear_interpolate(value, breakpoints)
LinearInterpolateCall ==
    /\ fpc = "li_call"
    /\ li_result' = LinearInterpolate(li_call.value, li_call.breakpoints)
    /\ fpc' = IF li_result'.raised THEN "li_raised" ELSE "li_returned"
    /\ UNCHANGED <<li_call, et_call, et_result, loadVars, indVars, stockVars>>

NextInterp == LinearInterpolateCall

SpecInterp == InitInterp /\ [][NextInterp]_vars

\* _evaluate_trigger(trigger, breakdown, category_scores, inputs, red_flags)
EvaluateTriggerCall ==
    /\ fpc = "et_call"
    /\ et_result' = TriggerRun(et_call.trigger, et_call, 0)
    /\ fpc' = "et_returned"
    /\ UNCHANGED <<li_call, li_result, et_call, loadVars, indVars, stockVars>>

NextTrig == EvaluateTriggerCall

SpecTrig == InitTrig /\ [][NextTrig]_vars

-----------------------------------------------------------------------------
(* Claims about load_config *)

StructurallyValid(d) == d.has_weights /\ d.has_indicators

WeightsSumTo100(w) ==
    RLe(RAbs(RSub(RSumFun(w, DOMAIN w), Hundred)), WeightSumTol)

CategoryMatches(c) ==
    RLe(RAbs(RSub(CategorySum(cfg.indicators, c), cfg.weights[c])), CategoryTol)

C6_Idempotent ==
    [][lc = "returned" =>
          /\ lc' = "returned"
          /\ cfg'.weights = cfg.weights
          /\ cfg'.indicators = cfg.indicators]_vars

\* a configuration whose weights were rescaled has been normalized again
C6_Witness ==
    /\ lc = "returned"
    /\ napps >= 2
    /\ cfg.weights # doc.weights
    /\ cfg.indicators # doc.indicators

\* C7: load_config fails whenever the document lacks the weights entry or
\* lacks the indicators entry; it never returns a config for such a document.
C7_MissingKeysRejected ==
    (lc # "start" /\ ~StructurallyValid(doc)) => lc = "raised"

-----------------------------------------------------------------------------
(* Claims about score_indicator *)

\* C2 as stated: score_indicator never raises; for every indicator, inputs
\* and peer samples the call returns a result.
C2_NeverRaises == ipc # "raised"

\* none of the hints is a key of the inputs, or the first hint that is a key
\* maps to null or NaN
MissingValue(ind, inputs) ==
    LET hints == FieldHints(ind)
    IN  \/ \A i \in 1..Len(hints) : hints[i] \notin DOMAIN inputs
        \/ \E i \in 1..Len(hints) :
              /\ hints[i] \in DOMAIN inputs
              /\ \A k \in 1..(i - 1) : hints[k] \notin DOMAIN inputs
              /\ inputs[hints[i]].t \in {"none", "nan"}

MissingResult(ind, item) ==
    /\ item.id = ind.id
    /\ item.score = R(0)
    /\ item.raw = None
    /\ item.warnings # <<>>

InRange(r) == RLe(R(0), r) /\ RLe(r, Hundred)

\* C4: every result returned by score_indicator has 0 <= score <= 100, and
\* so has every breakdown entry score_stock collects and reports.
C4_ScoreInRange ==
    /\ ipc = "returned" => InRange(ires.result.score)
    /\ mode = "stock" =>
          /\ \A i \in 1..Len(s_breakdown) : InRange(s_breakdown[i].score)
          /\ pc = "done" =>
                \A i \in 1..Len(report.breakdown) :
                   InRange(report.breakdown[i].score)

\* a scoring function returned a score that, after the direction is applied,
\* lies outside 0..100
C4_Witness ==
    /\ ipc = "returned"
    /\ ires.dispatched
    /\ ~InRange(Directed(si_ind,
                         Dispatch(si_ind, RawValue(FieldHints(si_ind), si_inputs),
                                  si_inputs, si_peers).score))

-----------------------------------------------------------------------------
(* Claims about score_stock *)

\* C1 as stated: the report returned by score_stock carries the red flags of
\* the decision evaluated in the same call.
C1_ReportCarriesRedFlags ==
    (pc = "done" /\ dec.red_flags # <<>>) =>
       \E k \in {"red_flags", "redFlags"} :
          k \in DOMAIN report /\ report[k] = dec.red_flags

Aggregated == mode = "stock" /\ pc \in {"ladder", "red_flags", "decided", "done"}

MemberIndexes(c) == {i \in 1..Len(s_breakdown) : s_breakdown[i].category = c}

\* s is the weight-weighted mean of the members of category c, 0 when their
\* weights sum to 0
IsWeightedMean(s, c) ==
    LET M == MemberIndexes(c)
        w == RSumFun([i \in M |-> s_breakdown[i].weight], M)
        ws == RSumFun([i \in M |-> RMul(s_breakdown[i].score,
                                        s_breakdown[i].weight)], M)
    IN  IF RIsZero(w) THEN s = R(0) ELSE RMul(s, w) = ws

\* C8: aggregate_scores gives each category of the breakdown the weighted
\* mean of its members (0 for weight sum 0); the total is the sum over those
\* categories of score * weight / 100, with weight 0 for a category that is
\* not in the config weights; one category of weight 100 with one linear
\* indicator over [[0,0],[100,100]] and input 40 totals exactly 40.
C8_WeightedAggregate ==
    Aggregated =>
       LET cats == {s_breakdown[i].category : i \in 1..Len(s_breakdown)}
           w == DocWeights(s_config)
       IN  /\ DOMAIN agg.category_scores = cats
           /\ \A c \in cats : IsWeightedMean(agg.category_scores[c], c)
           /\ agg.total_score =
                 RSumFun([c \in cats |->
                            RDiv(RMul(agg.category_scores[c],
                                      IF c \in DOMAIN w THEN w[c] ELSE R(0)),
                                 Hundred)], cats)
           /\ (/\ w = ("core" :> R(100))
               /\ DocIndicators(s_config) = <<Catalog[1]>>
               /\ merged_inputs = ("x" :> Num(R(40)))) =>
                 agg.total_score = R(40)
           /\ pc = "done" => /\ report.total_score = agg.total_score
                             /\ report.category_scores = agg.category_scores

\* the report of one category of weight 100 with one linear indicator and
\* input 40
C8_Witness ==
    /\ pc = "done"
    /\ DocWeights(s_config) = ("core" :> R(100))
    /\ DocIndicators(s_config) = <<Catalog[1]>>
    /\ merged_inputs = ("x" :> Num(R(40)))
    /\ report.total_score = R(40)

-----------------------------------------------------------------------------
(* Claims about apply_decision_rules *)

LadderDone == mode = "decision" /\ pc \in {"red_flags", "decided", "raised"}

\* C9: the rating and sizing before red flags are those of the last rule in
\* document order with total >= min_score, REDUCE/WAIT and underweight when
\* there is none; for rules 0, 55, 70 and total 72 that is the min-70 rule;
\* evaluate_rating_thresholds returns the same pair.
C9_LastSatisfiedRuleWins ==
    LadderDone =>
       LET rules == s_config.decision_rules.score_to_rating
           total == agg.total_score
           met == {i \in 1..Len(rules) : RLe(rules[i].min_score, total)}
       IN  /\ IF met = {}
              THEN dec.ladder = [rating |-> "REDUCE/WAIT", sizing |-> "underweight"]
              ELSE LET last == CHOOSE i \in met : \A k \in met : k <= i
                   IN  dec.ladder = [rating |-> rules[last].rating,
                                     sizing |-> rules[last].sizing]
           /\ dec.ladder = EvaluateRatingThresholds(total, rules)
           /\ dec.idx = 0 => /\ dec.rating = dec.ladder.rating
                             /\ dec.sizing = dec.ladder.sizing
           /\ (rules = StandardLadder /\ total = R(72)) =>
                 dec.ladder = [rating |-> rules[3].rating,
                               sizing |-> rules[3].sizing]

\* rules 0, 55, 70 and total 72: the ladder has given the min-70 rating
C9_Witness ==
    /\ mode = "decision"
    /\ pc = "red_flags"
    /\ dec.idx = 0
    /\ s_config.decision_rules.score_to_rating = StandardLadder
    /\ agg.total_score = R(72)
    /\ dec.rating = "BUY"
    /\ dec.sizing = "overweight"

OneStepDown(from, to) ==
    \E i \in 1..Len(rating_hierarchy) :
       /\ rating_hierarchy[i] = from
       /\ to = rating_hierarchy[IF i < Len(rating_hierarchy) THEN i + 1 ELSE i]

\* C10: each applied DOWNGRADE_ONE_LEVEL moves the rating one step down
\* BUY, ACCUMULATE, HOLD, REDUCE/WAIT, REDUCE/WAIT staying where it is, as
\* apply_rating_downgrade does; after k downgrades and no review the rating
\* is the ladder rating moved k steps and never past REDUCE/WAIT, so two
\* downgrades take BUY to HOLD.
C10_DowngradeOneLevel ==
    /\ [][(mode = "decision" /\ dec'.applied = "downgrade") =>
             /\ OneStepDown(dec.rating, dec'.rating)
             /\ dec'.rating = ApplyRatingDowngrade(dec.rating, 1)
             /\ dec.rating = "REDUCE/WAIT" => dec'.rating = "REDUCE/WAIT"]_vars
    /\ [](LadderDone /\ dec.reviews = 0 =>
             /\ dec.rating = ApplyRatingDowngrade(dec.ladder.rating, dec.downgrades)
             /\ (dec.ladder.rating = "BUY" /\ dec.downgrades = 2) =>
                   dec.rating = "HOLD")

\* two downgrade rules have matched in sequence after a BUY ladder rating
C10_Witness ==
    /\ mode = "decision"
    /\ dec.ladder.rating = "BUY"
    /\ dec.idx = 2
    /\ dec.downgrades = 2
    /\ dec.applied = "downgrade"
    /\ dec.rating = "HOLD"

\* the rule the red-flag loop handles next
NextRule == s_config.decision_rules.red_flags[dec.idx + 1]

\* C11 as stated: whenever a red-flag rule matches (a description is appended
\* to the red-flag list), the rule's action is applied: DOWNGRADE_ONE_LEVEL
\* lowers the rating one tier, IMMEDIATE_HOLD_REVIEW sets HOLD and
\* review_required.
C11_MatchedRuleActionApplied ==
    [][(/\ mode = "decision"
        /\ pc = "red_flags"
        /\ Len(dec'.red_flags) = Len(dec.red_flags) + 1) =>
          /\ NextRule.action = "DOWNGRADE_ONE_LEVEL" =>
                OneStepDown(dec.rating, dec'.rating)
          /\ NextRule.action = "IMMEDIATE_HOLD_REVIEW" =>
                dec'.rating = "HOLD" /\ dec'.sizing = "review_required"]_vars

-----------------------------------------------------------------------------
(* Claims about triggers *)

TriggersDone == pc \in {"decided", "done"}

\* the trigger evaluated on its own against the state of the call
Holds(trigger) ==
    EvaluateTrigger(trigger, s_breakdown, agg.category_scores, merged_inputs,
                    dec.red_flags)

Fired(prefix, trigger) ==
    \E i \in 1..Len(dec.triggered) : dec.triggered[i] = prefix \o trigger

\* A AND B fires exactly when every part holds, A OR B exactly when some
\* part holds
CompositeAsParts(prefix, trigger) ==
    /\ Contains(trigger, " AND ") =>
          LET parts == Split(trigger, " AND ")
          IN  Fired(prefix, trigger) <=>
                 \A i \in 1..Len(parts) : Holds(Strip(parts[i]))
    /\ (Contains(trigger, " OR ") /\ ~Contains(trigger, " AND ")) =>
          LET parts == Split(trigger, " OR ")
          IN  Fired(prefix, trigger) <=>
                 \E i \in 1..Len(parts) : Holds(Strip(parts[i]))

\* C12 as stated: a composite trigger A AND B is true exactly when both A
\* and B are true under the same grammar, A OR B exactly when at least one
\* is; x >= 10 AND no_red_flags needs x >= 10 and an empty red-flag list.
C12_CompositeTriggers ==
    TriggersDone =>
       LET rules == s_config.decision_rules
       IN  /\ \A i \in 1..Len(rules.buy_triggers) :
                 CompositeAsParts("BUY: ", rules.buy_triggers[i])
           /\ \A i \in 1..Len(rules.trim_triggers) :
                 CompositeAsParts("TRIM: ", rules.trim_triggers[i])

\* C13: the buy and trim triggers are evaluated only after every red-flag
\* rule has been processed, the red-flag list no longer changes from then on,
\* and the trigger no_red_flags fires exactly when the red-flag list
\* accumulated by the rules of the same call is empty.
C13_RedFlagsBeforeTriggers ==
    /\ [][mode = "decision" =>
             /\ dec'.triggered # dec.triggered =>
                   /\ dec.idx = Len(s_config.decision_rules.red_flags)
                   /\ dec'.red_flags = dec.red_flags
             /\ dec'.red_flags # dec.red_flags => dec.triggered = <<>>]_vars
    /\ [](mode = "decision" =>
             /\ pc = "red_flags" => dec.triggered = <<>>
             /\ TriggersDone =>
                   LET rules == s_config.decision_rules
                   IN  /\ dec.idx = Len(rules.red_flags)
                       /\ \A i \in 1..Len(rules.buy_triggers) :
                             rules.buy_triggers[i] = "no_red_flags" =>
                                (Fired("BUY: ", "no_red_flags")
                                    <=> dec.red_flags = <<>>)
                       /\ \A i \in 1..Len(rules.trim_triggers) :
                             rules.trim_triggers[i] = "no_red_flags" =>
                                (Fired("TRIM: ", "no_red_flags")
                                    <=> dec.red_flags = <<>>))

\* the only red flag of the call came from the last of two rules, and the
\* configured trigger no_red_flags has not fired
C13_Witness ==
    LET rules == s_config.decision_rules
    IN  /\ mode = "decision"
        /\ pc = "decided"
        /\ Len(rules.red_flags) = 2
        /\ rules.red_flags[1].id # rules.red_flags[2].id
        /\ Len(dec.red_flags) = 1
        /\ dec.red_flags[1][1] = rules.red_flags[2].id
        /\ \E i \in 1..Len(rules.trim_triggers) :
              rules.trim_triggers[i] = "no_red_flags"
        /\ ~Fired("TRIM: ", "no_red_flags")

-----------------------------------------------------------------------------
(* Claims about repeated calls of score_stock *)

\* C14 as stated: two calls of score_stock with equal configuration, inputs,
\* peers and overrides return equal reports in every field.
C14_EqualReports ==
    (pc = "done" /\ ncalls >= 2) => report = prev_report

-----------------------------------------------------------------------------
(* Claims about failures of decision evaluation *)

\* C15 as stated: aggregation and decision evaluation never raise; for every
\* breakdown and merged inputs apply_decision_rules returns a result.
C15_DecisionNeverRaises == mode = "decision" => pc # "raised"

\* the report without the clock reading
Timeless(r) == [r EXCEPT !.meta.as_of = 0]

\* fields given both as input and as override
Overridden == DOMAIN s_inputs \cap DOMAIN s_overrides

-----------------------------------------------------------------------------
(* Claims about categories of zero indicator weight *)

ZeroSumCategories(inds) ==
    {c \in IndicatorCategories(inds) : RIsZero(CategorySum(inds, c))}

\* C17 as stated: when the indicators of a category have weights that sum to
\* 0, load_config returns normally and leaves those indicator weights as they
\* are, whatever the category's configured weight.
C17_ZeroSumCategoryLeftUnscaled ==
    (/\ lc # "start"
     /\ StructurallyValid(doc)
     /\ WeightsSumTo100(doc.weights)
     /\ ZeroSumCategories(doc.indicators) # {}) =>
       /\ lc = "returned"
       /\ \A i \in 1..Len(doc.indicators) :
             doc.indicators[i].category \in ZeroSumCategories(doc.indicators) =>
                cfg.indicators[i].weight = doc.indicators[i].weight

-----------------------------------------------------------------------------
(* Claims about the scoring functions *)

\* score_indicator has returned from the scoring function of the given type
Ran(type) ==
    ipc = "returned" /\ ires.dispatched /\ si_ind.scoring.type = type

SiRaw == RawValue(FieldHints(si_ind), si_inputs)

\* the peer samples that are numbers
ValidIndexes(sample) == {i \in 1..Len(sample) : sample[i].t = "num"}

\* number of valid samples below the value: the index of the value's first
\* occurrence once it is inserted and the list sorted
RankOf(value, sample) ==
    Cardinality({i \in ValidIndexes(sample) : RLt(sample[i].n, value)})

\* C18 as stated: peer_percentile returns rank / (n - 1) * 100, n the number
\* of valid samples plus the inserted value and rank the index of the
\* value's first occurrence in the sorted list; for peers [1,2,3] and value
\* 2 the percentile is 50.
C18_PercentileRank ==
    (/\ Ran("peer_percentile")
     /\ si_ind.direction = "higher_is_better"
     /\ PeerKey(si_ind) \in DOMAIN si_peers) =>
       LET sample == si_peers[PeerKey(si_ind)]
           n == Cardinality(ValidIndexes(sample)) + 1
       IN  /\ n > 1 =>
                RMul(ires.result.score, R(n - 1)) =
                   RMul(R(RankOf(SiRaw.n, sample)), Hundred)
           /\ (sample = <<Num(R(1)), Num(R(2)), Num(R(3))>> /\ SiRaw = Num(R(2))) =>
                ires.result.score = R(50)

\* C19 as stated: the peer median of relative_to_peer, reported as
\* peer_median, is the element at index floor(n/2) of the sorted peer array,
\* and for every even-length array that is the lower of the two middle
\* elements.
C19_LowerMedian ==
    (Ran("relative_to_peer") /\ ires.result.has_pm) =>
       LET sample == si_peers[si_ind.scoring.relation.key]
           n == Len(sample)
           sorted == SortNums(FilterValid(sample))
       IN  (n >= 2 /\ n % 2 = 0) =>
              /\ ires.result.pm = Num(sorted[(n \div 2) + 1])
              /\ ires.result.pm = Num(sorted[n \div 2])

\* the grid cells whose x and y ranges both contain the point
ContainingCells(grid, xv, yv) ==
    {i \in 1..Len(grid) : CellHit(grid[i], xv, yv)}

\* C20 as stated: two_dim returns the maximum score among the grid cells
\* containing the point, and the configured default only when no cell
\* contains the point or a coordinate is missing; when every containing cell
\* scores below the default the result is the cell maximum.
C20_TwoDimCellMaximum ==
    (Ran("two_dim") /\ si_ind.direction = "higher_is_better") =>
       LET sc == si_ind.scoring
           xv == Get(si_inputs, sc.x)
           yv == Get(si_inputs, sc.y)
           hits == ContainingCells(sc.grid, xv, yv)
           best == CHOOSE i \in hits :
                      \A k \in hits : RLe(sc.grid[k].score, sc.grid[i].score)
       IN  ires.result.score =
              Clamp(IF xv.t = "none" \/ yv.t = "none" \/ hits = {}
                    THEN sc.default
                    ELSE sc.grid[best].score)

-----------------------------------------------------------------------------
(* Claims about _linear_interpolate *)

LiReturned == fpc = "li_returned"

DistinctX(bp) == \A i, j \in 1..Len(bp) : bp[i][1] = bp[j][1] => i = j

Ascending(q) == \A i \in 1..(Len(q) - 1) : RLe(q[i][1], q[i + 1][1])

\* r is the straight-line value at x between the points a and b
OnLine(a, b, x, r) ==
    /\ RLt(a[1], b[1])
    /\ RLe(a[1], x) /\ RLe(x, b[1])
    /\ r = RAdd(a[2], RMul(RDiv(RSub(x, a[1]), RSub(b[1], a[1])), RSub(b[2], a[2])))

\* r is what the ascending list q prescribes for the number x
Prescribed(q, x, r) ==
    IF RLe(x, q[1][1]) THEN r = q[1][2]
    ELSE IF RLe(q[Len(q)][1], x) THEN r = q[Len(q)][2]
    ELSE \E i \in 1..(Len(q) - 1) : OnLine(q[i], q[i + 1], x, r)

BetweenScores(bp, r) ==
    /\ \E i \in 1..Len(bp) : RLe(bp[i][2], r)
    /\ \E i \in 1..Len(bp) : RLe(r, bp[i][2])

\* for [[0,0],[10,100]] in either order: -5, 5, 15 score 0, 50, 100
StatedExamples ==
    li_call.breakpoints \in Orderings(BP) =>
        /\ li_call.value = Num(R(-5)) => li_result.v = R(0)
        /\ li_call.value = Num(R(5)) => li_result.v = R(50)
        /\ li_call.value = Num(R(15)) => li_result.v = R(100)

SameForEveryListing ==
    \A q \in Orderings(li_call.breakpoints) :
        LinearInterpolate(li_call.value, q) = li_result

\* C21 as stated: for every value and every non-empty breakpoint list,
\* _linear_interpolate returns what the breakpoints in ascending order of x
\* prescribe (first score at or below the first x, last score at or above the
\* last x, the straight line between the bracketing pair otherwise), the
\* result lies between the smallest and the largest breakpoint score, and it
\* is the same for every listing order of the breakpoints.
C21_InterpolationAnyListing ==
    (LiReturned /\ li_call.breakpoints # <<>>) =>
        /\ li_call.value.t = "num" =>
              \A q \in Orderings(li_call.breakpoints) :
                  Ascending(q) => Prescribed(q, li_call.value.n, li_result.v)
        /\ BetweenScores(li_call.breakpoints, li_result.v)
        /\ StatedExamples
        /\ SameForEveryListing

\* C21 amended: the same for a number and breakpoints with pairwise distinct
\* x; a number always scores between the smallest and the largest breakpoint
\* score; NaN and an empty breakpoint list score 0.
C21_InterpolationDistinctX ==
    LiReturned =>
        /\ li_call.breakpoints = <<>> => li_result.v = R(0)
        /\ (li_call.breakpoints # <<>> /\ li_call.value.t = "nan") =>
              li_result.v = R(0)
        /\ (li_call.breakpoints # <<>> /\ li_call.value.t = "num") =>
              /\ BetweenScores(li_call.breakpoints, li_result.v)
              /\ StatedExamples
              /\ DistinctX(li_call.breakpoints) =>
                    /\ \A q \in Orderings(li_call.breakpoints) :
                          Ascending(q) =>
                              Prescribed(q, li_call.value.n, li_result.v)
                    /\ SameForEveryListing

\* a value strictly inside an unsorted three-point list: 20 + 2/5 * 60
C21_Witness ==
    /\ LiReturned
    /\ li_call.breakpoints = <<<<R(10), R(50)>>, <<R(0), R(20)>>, <<R(5), R(80)>>>>
    /\ li_call.value = Num(R(2))
    /\ li_result.v = R(44)

-----------------------------------------------------------------------------
(* Claims about the direction of an indicator *)

\* the same call with the other direction
Opposite(dir) ==
    IF dir = "lower_is_better" THEN "higher_is_better" ELSE "lower_is_better"

OppositeOutcome ==
    ScoreIndicator([si_ind EXCEPT !.direction = Opposite(si_ind.direction)],
                   si_inputs, si_peers)

\* item i of the breakdown, scored by score_stock with the other direction
OppositeItem(i) ==
    ScoreIndicator([DocIndicators(s_config)[i] EXCEPT
                       !.direction = Opposite(DocIndicators(s_config)[i].direction)],
                   merged_inputs, s_peers)

\* both calls of score_stock scored item i from a present raw value
ScoredTwice(i) ==
    /\ i \in 1..Len(report.breakdown)
    /\ i \in 1..Len(prev_report.breakdown)
    /\ ran[i]

\* C22: with the raw value present, the final score under lower_is_better is
\* 100 minus the final score under higher_is_better for the same indicator
\* spec, inputs and peers, the clamp included; and a second call of
\* score_stock with the same arguments gives every indicator the score of the
\* first call.
C22_DirectionInverts ==
    /\ (ipc = "returned" /\ ires.dispatched) =>
          /\ ~OppositeOutcome.raised
          /\ ires.result.score = RSub(Hundred, OppositeOutcome.result.score)
    /\ (pc = "done" /\ ncalls >= 2) =>
          \A i \in 1..Len(report.breakdown) :
              ScoredTwice(i) =>
                  /\ report.breakdown[i].score = prev_report.breakdown[i].score
                  /\ ~OppositeItem(i).raised
                  /\ report.breakdown[i].score =
                        RSub(Hundred, OppositeItem(i).result.score)

\* the lower_is_better indicator pb, above all of its peers, scores 0 in both
\* calls where higher_is_better gives 100
C22_Witness ==
    /\ pc = "done" /\ ncalls >= 2
    /\ \E i \in 1..Len(report.breakdown) :
          /\ ScoredTwice(i)
          /\ DocIndicators(s_config)[i].direction = "lower_is_better"
          /\ report.breakdown[i].score = R(0)
          /\ prev_report.breakdown[i].score = R(0)
          /\ OppositeItem(i).result.score = Hundred

-----------------------------------------------------------------------------
(* Claims about the manual red-flag rule *)

\* C23 as stated: a red-flag rule with the condition true fires in every
\* call, whether or not the breakdown holds an indicator with the rule's id:
\* its red flag is appended and its action is applied.
C23_ManualRuleAlwaysFires ==
    [][(/\ mode = "decision"
        /\ pc = "red_flags"
        /\ dec.idx < Len(s_config.decision_rules.red_flags)
        /\ NextRule.cond = "true") =>
          /\ dec'.red_flags =
                Append(dec.red_flags, <<NextRule.id, "manual_trigger">>)
          /\ NextRule.action = "DOWNGRADE_ONE_LEVEL" =>
                OneStepDown(dec.rating, dec'.rating)
          /\ NextRule.action = "IMMEDIATE_HOLD_REVIEW" =>
                dec'.rating = "HOLD" /\ dec'.sizing = "review_required"]_vars

-----------------------------------------------------------------------------
(* Claims about the triggered list *)

\* the triggers of the list that hold on their own, prefixed, in list order
Recorded(prefix, triggers) ==
    LET kept == SelectSeq(triggers, Holds)
    IN  [i \in 1..Len(kept) |-> prefix \o kept[i]]

\* C24: the triggered list is the true buy triggers prefixed with BUY: in
\* document order followed by the true trim triggers prefixed with TRIM: in
\* document order, each trigger evaluated on its own; evaluating the
\* triggers changes neither rating, sizing nor the red-flag list.
C24_TriggeredList ==
    /\ [](TriggersDone =>
             dec.triggered =
                Recorded("BUY: ", s_config.decision_rules.buy_triggers)
                \o Recorded("TRIM: ", s_config.decision_rules.trim_triggers))
    /\ [][(pc = "red_flags" /\ pc' = "decided") =>
             /\ dec'.rating = dec.rating
             /\ dec'.sizing = dec.sizing
             /\ dec'.red_flags = dec.red_flags]_vars

\* a false buy trigger before a true one, a true trim trigger before a false
\* one, with a rating and red flags set by the rules before them
C24_Witness ==
    /\ mode = "decision"
    /\ pc = "decided"
    /\ s_config.decision_rules.buy_triggers =
          <<"roe score >= 70", "lcr >= 100 AND no_red_flags">>
    /\ s_config.decision_rules.trim_triggers =
          <<"core_fundamentals_weighted", "no_red_flags">>
    /\ dec.triggered = <<"BUY: lcr >= 100 AND no_red_flags",
                         "TRIM: core_fundamentals_weighted">>
    /\ dec.red_flags # <<>>
    /\ dec.rating = "HOLD" /\ dec.sizing = "review_required"

-----------------------------------------------------------------------------
(* Claims about _evaluate_trigger *)

EtReturned == fpc = "et_returned"

HasItem(breakdown, id) == \E i \in 1..Len(breakdown) : breakdown[i].id = id

\* C25: <id> score >= n is false when no breakdown item has that id, and
\* <field> >= n compares 0 with n when the field is missing from the inputs,
\* so that it is true exactly for n <= 0.
C25_AbsentOperand ==
    EtReturned =>
        \A lit \in DOMAIN Literals :
            /\ \A id \in TriggerIds :
                  (/\ et_call.trigger = id \o " score >= " \o lit
                   /\ ~HasItem(et_call.breakdown, id)) =>
                      et_result.value = FALSE
            /\ \A f \in TriggerFields :
                  (/\ et_call.trigger = f \o " >= " \o lit
                   /\ f \notin DOMAIN et_call.inputs) =>
                      (et_result.value <=> RLe(Literals[lit], R(0)))

\* q >= -5 with q missing from the inputs holds: 0 >= -5
C25_Witness ==
    /\ EtReturned
    /\ et_call.trigger = "q >= -5"
    /\ "q" \notin DOMAIN et_call.inputs
    /\ et_call.inputs # <<>>
    /\ et_result.value = TRUE

\* number of separators of the kind sep in the trigger
Separators(trigger, sep) == Len(Split(trigger, sep)) - 1

\* C28 as stated: evaluating a trigger ends with a boolean after a number of
\* recursive calls bounded by its separators (every separator splits off one
\* condition, evaluated at most once at each of the two levels AND and OR);
\* a trigger without the separators " AND " and " OR " makes no recursive
\* call, also when it holds the letters AND or OR.
C28_BoundedRecursion ==
    EtReturned =>
        /\ et_result.value \in BOOLEAN
        /\ et_result.calls <=
              2 * (Separators(et_call.trigger, " AND ")
                   + Separators(et_call.trigger, " OR "))

-----------------------------------------------------------------------------
(* Claims about the rating after red-flag processing *)

\* position in BUY > ACCUMULATE > HOLD > REDUCE/WAIT, 1 for the best tier
Tier(rating) == CHOOSE i \in 1..Len(rating_hierarchy) : rating_hierarchy[i] = rating

AtOrBelow(rating, other) == Tier(rating) >= Tier(other)

\* the rating ladder has run in a call of apply_decision_rules
AfterLadder == mode = "decision" /\ pc \in {"red_flags", "decided"}

\* C26 as stated: after any sequence of red-flag rules the rating is at or
\* below the rating the ladder chose.
C26_NeverAboveLadder ==
    AfterLadder => AtOrBelow(dec.rating, dec.ladder.rating)

\* C26 amended: the rating is at or below the ladder rating as long as no
\* IMMEDIATE_HOLD_REVIEW action has been applied, and at or below HOLD once
\* one has been.
C26_NeverAboveLadderOrHold ==
    AfterLadder =>
        /\ dec.reviews = 0 => AtOrBelow(dec.rating, dec.ladder.rating)
        /\ dec.reviews > 0 => AtOrBelow(dec.rating, "HOLD")

\* two downgrades have taken the ladder's BUY to HOLD
C26_Witness ==
    /\ mode = "decision"
    /\ pc = "decided"
    /\ dec.ladder.rating = "BUY"
    /\ dec.downgrades = 2
    /\ dec.reviews = 0
    /\ dec.rating = "HOLD"

\* C27 as stated: if an IMMEDIATE_HOLD_REVIEW action was applied at any point
\* of red-flag processing, the call ends with rating HOLD and sizing
\* review_required, whatever rules come before or after it.
C27_HoldReviewIsFinal ==
    (mode = "decision" /\ pc = "decided" /\ dec.reviews > 0) =>
        dec.rating = "HOLD" /\ dec.sizing = "review_required"

-----------------------------------------------------------------------------
(* Claims about the range of the aggregate scores *)

NonNegative(r) == RLe(R(0), r)

\* category weights and indicator weights are non-negative, the category
\* weights sum to 100 and the breakdown scores lie in [0, 100]
AggregateInputsInRange ==
    LET w == DocWeights(s_config)
    IN  /\ \A c \in DOMAIN w : NonNegative(w[c])
        /\ RSumFun(w, DOMAIN w) = Hundred
        /\ \A i \in 1..Len(s_breakdown) :
              NonNegative(s_breakdown[i].weight) /\ InRange(s_breakdown[i].score)

\* the members of category c that carry a positive weight
WeightedMembers(c) ==
    {i \in MemberIndexes(c) : RLt(R(0), s_breakdown[i].weight)}

\* C29: with non-negative category weights that sum to 100, non-negative
\* indicator weights and breakdown scores in [0, 100], every category score
\* and the total score lie in [0, 100], and a category score lies between
\* the smallest and the largest score of its members of positive weight.
C29_AggregateInRange ==
    (Aggregated /\ AggregateInputsInRange) =>
        /\ InRange(agg.total_score)
        /\ \A c \in DOMAIN agg.category_scores :
              /\ InRange(agg.category_scores[c])
              /\ WeightedMembers(c) # {} =>
                    /\ \E i \in WeightedMembers(c) :
                          RLe(s_breakdown[i].score, agg.category_scores[c])
                    /\ \E i \in WeightedMembers(c) :
                          RLe(agg.category_scores[c], s_breakdown[i].score)

\* a category whose score lies strictly between the scores of two weighted
\* members, and a total strictly inside the range
C29_Witness ==
    /\ Aggregated
    /\ AggregateInputsInRange
    /\ RLt(R(0), agg.total_score) /\ RLt(agg.total_score, Hundred)
    /\ \E c \in DOMAIN agg.category_scores :
          /\ \E i \in WeightedMembers(c) :
                RLt(s_breakdown[i].score, agg.category_scores[c])
          /\ \E i \in WeightedMembers(c) :
                RLt(agg.category_scores[c], s_breakdown[i].score)

-----------------------------------------------------------------------------
(* Claims about the sizing *)

\* C30: a DOWNGRADE_ONE_LEVEL action leaves the sizing as it was, so that
\* the call ends with the sizing review_required when some
\* IMMEDIATE_HOLD_REVIEW action was applied and with the sizing of the rating
\* ladder otherwise.
C30_DowngradeKeepsSizing ==
    /\ [][(mode = "decision" /\ dec'.downgrades # dec.downgrades) =>
             /\ dec'.sizing = dec.sizing
             /\ dec'.triggered = dec.triggered]_vars
    /\ [](AfterLadder =>
             dec.sizing = IF dec.reviews > 0 THEN "review_required"
                          ELSE dec.ladder.sizing)

\* a downgrade after a hold review: the rating has moved on to REDUCE/WAIT,
\* the sizing is still review_required where the ladder chose overweight
C30_Witness ==
    /\ mode = "decision"
    /\ pc = "decided"
    /\ dec.ladder.sizing = "overweight"
    /\ dec.reviews = 1
    /\ dec.downgrades = 1
    /\ dec.applied = "none"
    /\ dec.rating = "REDUCE/WAIT"
    /\ dec.sizing = "review_required"

====
